---- MODULE Spec2Model ----
(***************************************************************************)
(* Model of the conversational dispatch pipeline of namwoo_app:            *)
(*   - ai_service.process_new_message and the chat-completion tool loop of *)
(*     OpenAIChatProvider / GoogleGeminiProvider          (specification   *)
(*     Spec);                                                              *)
(*   - the tool dispatchers _execute_tool_calls of the three providers     *)
(*     (specification SpecDispatch);                                       *)
(*   - the webhook handler: deduplication, sender classification, pause    *)
(*     (specifications SpecDedup, SpecHook);                               *)
(*   - OpenAIAssistantProvider.process_message under the Redis lock, with  *)
(*     two workers on one conversation (specification SpecAssistant);      *)
(*   - thread_mapping_service and _get_or_create_thread_id (specification  *)
(*     SpecThreads);                                                       *)
(*   - the context list of OpenAIChatProvider.process_message             *)
(*     (specification SpecContext);                                        *)
(*   - the find_products tool and product_service.find_products            *)
(*     (specification SpecSearch);                                         *)
(*   - message_parser grouping of product rows (specification SpecGroup);  *)
(*   - reservation details and the conversation city (SpecDetails);        *)
(*   - product_utils: canonical warehouse names and location ids           *)
(*     (specification SpecNames);                                          *)
(*   - the order-confirmation short cut of the webhook handler (SpecOrder) *)
(*     and product_service.get_branch_address (specification SpecBranch);  *)
(*   - the deduplication keys over deliveries with and without ids         *)
(*     (specification SpecIdem), and get_missing_details over sequences of *)
(*     store_reservation_detail calls (specification SpecMissing).         *)
(* Python None is the value NoneVal; an empty string is "".                *)
(***************************************************************************)
EXTENDS Naturals, Integers, Sequences, FiniteSets, TLC

VARIABLES
  \* ---- one turn through ai_service.process_new_message (chat / gemini)
  aiProvider,       \* Config.AI_PROVIDER
  apiKeySet,        \* the provider's API key is configured
  histEmpty,        \* the formatted Support Board history is empty
  newMsg,           \* new_user_message is a non-empty string
  pc,               \* position of the turn
  tool_call_count,  \* the loop's round counter
  modelCalls,       \* number of chat.completions.create calls made
  toolsExecuted,    \* number of tool calls dispatched in the turn
  pendingCalls,     \* tool calls of the model turn being handled
  toolOutputs,      \* results of the last executed round
  final_assistant_response,
  modelCallFailed,  \* the model call raised in this turn
  replies,          \* texts accepted by send_reply_to_channel, in order
  \* ---- one call of _execute_tool_calls
  dProvider, dCalls, dOutputs, dpc,
  dGateway,         \* per call: the Support Board operations its handling invoked
  \* ---- the webhook handler, one delivery at a time
  tagConfigured,    \* Config.COMMENT_BOT_INITIATION_TAG is set
  proxyConfigured,  \* Config.COMMENT_BOT_PROXY_USER_ID is set
  hNow,             \* the clock, in seconds
  hDeliveries,      \* number of webhook deliveries handled so far
  posted,           \* the messages of the conversation, in posting order
  deleted,          \* ids of the messages deleted from Support Board
  redisKeys,        \* live Redis keys with their expiry time
  pausedUntil,      \* ConversationPause.paused_until (0: no record)
  agentTimes,       \* times at which a human-agent webhook set the pause
  aiCalls,          \* number of ai_service.process_new_message invocations
  lastDecision,     \* what the last handled delivery came to
  \* ---- deliveries of one message handled concurrently
  cWaidSrc,         \* where the WhatsApp id of the message can be read from
  cPc,              \* each handler's position in the deduplication block
  cWaid,            \* each handler's wa_message_id (0: None)
  cKeys,            \* the Redis keys that exist
  cDeleted,         \* the message was deleted from Support Board
  \* ---- workers of one conversation in OpenAIAssistantProvider.process_message
  lockOwner,        \* whose token the key lock:conv:<id> holds (0: no key)
  lockAge,          \* seconds since the key was set
  wPc,              \* each worker's position in its turn
  wElapsed,         \* time.time() - start of the loop the worker is in
  wWaitOn,          \* the run _wait_for_thread_free is waiting for (its creator)
  runStatus,        \* status of the run each worker created on the thread
  latestRun,        \* creator of the thread's latest run (0: no run yet)
  did,              \* the locked steps each worker has performed
  lockFailed,       \* the worker's lock acquisition timed out
  wReplies,         \* send_reply_to_channel calls of each worker's turn
  conflict,         \* a message or run was requested over another worker's active run
  \* ---- turns of several conversations through _get_or_create_thread_id
  threadMap,        \* conversation_thread_map: conversation -> stored thread id (0: no row)
  threadsMade,      \* number of threads created at the backend
  tPc,              \* each worker's position in _get_or_create_thread_id
  tConv,            \* the conversation of each worker's turn
  tThread,          \* thread_id local of each worker (0: None)
  tSaw,             \* get_thread_id returned a stored thread id
  firstStored,      \* the first thread id ever stored for each conversation
  \* ---- one call of OpenAIChatProvider.process_message, with the context it builds
  sb_history_list,  \* conversation_data['messages'], as message shapes
  new_user_message, \* kind of the new user message: none, text, pin
  geoError,         \* geolocation_service.get_location_details reports an error
  openai_history,   \* the history list when line 215 is reached
  messages,         \* the context list handed to chat.completions.create
  ctxPc,            \* position of OpenAIChatProvider.process_message
  ctxCount,         \* tool_call_count of this process_message call
  firstContext,     \* messages as passed to the first model call
  roundLog,         \* per executed round: where its model turn sits and its calls
  sbAdded,          \* payload messages added to the Support Board conversation
  ctxResponse,      \* the value process_message returns
  \* ---- one find_products tool call of the chat dispatcher
  catalog,          \* the rows of the products table
  conversation_city, \* _conversation_cities[sb_conversation_id] (empty: no entry)
  fpQuery,          \* args['query'] of the find_products call, as a set of words
  fpCity,           \* args['city'] of the call (empty: none)
  fpEmbedOk,        \* get_embedding returns a vector for the query
  fpScope,          \* warehouse_names handed to find_products (empty: None)
  fpResult,         \* what find_products returned
  fpOutput,         \* the tool output of the dispatcher
  fpCalled,         \* product_service.find_products was called
  fpPc,             \* position of the dispatcher's find_products branch
  \* ---- _group_product_results over reorderings of one list of rows
  gList,            \* product_rows, in the order handed to _group_product_results
  gOut,             \* products_grouped of the last call
  gFirst,           \* base names, variants and branch totals of the first call
  gPc,              \* fresh, grouped (gOut is of gList) or stale (reordered since)
  \* ---- reservation details and city of one conversation
  reservation,      \* _conversation_reservations[C]: stored key -> value (empty: no entry)
  resCity,          \* _conversation_cities[C] (empty: no entry)
  dArgs,            \* arguments of the last save_customer_reservation_details call
  dStatus,          \* status of the last tool output
  dLast,            \* the tool the dispatcher executed last for C
  accScope,         \* the city_warehouses query_accessories was last called with
  \* ---- product utilities
  whsIn,            \* the warehouse name given to the product utilities
  itemIn,           \* the item code given to generate_product_location_id
  canon1,           \* canonicalize(whsIn)
  canon2,           \* canonicalize(canon1)
  locId,            \* result of generate_product_location_id
  nPc,              \* "input", "once", "twice" or "id"
  \* ---- one get_branch_address tool call
  bRows,            \* the rows of the products table, as get_branch_address reads them
  bName,            \* args['branchName'] (empty: missing)
  bCity,            \* args['city'] (empty: missing)
  bResult,          \* the tool output of the get_branch_address call
  bPc,              \* "call" or "done"
  \* ---- routes.py: the deduplication block over deliveries with and without ids
  iNow,             \* the clock of the deliveries handled one after another, in seconds
  iKeys,            \* the Redis keys of the deduplication block, each with its expiry
  iLog              \* the deliveries handled so far, each with its time and its outcome

chatVars == <<aiProvider, apiKeySet, histEmpty, newMsg, pc, tool_call_count,
              modelCalls, toolsExecuted, pendingCalls, toolOutputs,
              final_assistant_response, modelCallFailed, replies>>
dispVars == <<dProvider, dCalls, dOutputs, dpc, dGateway>>
hookVars == <<tagConfigured, proxyConfigured, hNow, hDeliveries, posted,
              deleted, redisKeys, pausedUntil, agentTimes, aiCalls, lastDecision>>
dedupVars == <<cWaidSrc, cPc, cWaid, cKeys, cDeleted>>
asstVars == <<lockOwner, lockAge, wPc, wElapsed, wWaitOn, runStatus, latestRun,
              did, lockFailed, wReplies, conflict>>
thrVars == <<threadMap, threadsMade, tPc, tConv, tThread, tSaw, firstStored>>
ctxVars == <<sb_history_list, new_user_message, geoError, openai_history, messages, ctxPc, ctxCount, firstContext, roundLog, sbAdded, ctxResponse>>
srchVars == <<catalog, conversation_city, fpQuery, fpCity, fpEmbedOk, fpScope, fpResult, fpOutput, fpCalled, fpPc>>
grpVars == <<gList, gOut, gFirst, gPc>>
detVars == <<reservation, resCity, dArgs, dStatus, dLast, accScope>>
nameVars == <<whsIn, itemIn, canon1, canon2, locId, nPc>>
branchVars == <<bRows, bName, bCity, bResult, bPc>>
idemVars == <<iNow, iKeys, iLog>>
vars == <<chatVars, dispVars, hookVars, dedupVars, asstVars, thrVars, ctxVars, srchVars, grpVars, detVars, nameVars, branchVars, idemVars>>
notChat == <<dispVars, hookVars, dedupVars, asstVars, thrVars, ctxVars, srchVars, grpVars, detVars, nameVars, branchVars, idemVars>>
notDisp == <<chatVars, hookVars, dedupVars, asstVars, thrVars, ctxVars, srchVars, grpVars, detVars, nameVars, branchVars, idemVars>>
notHook == <<chatVars, dispVars, dedupVars, asstVars, thrVars, ctxVars, srchVars, grpVars, detVars, nameVars, branchVars, idemVars>>
notDedup == <<chatVars, dispVars, hookVars, asstVars, thrVars, ctxVars, srchVars, grpVars, detVars, nameVars, branchVars, idemVars>>
notAsst == <<chatVars, dispVars, hookVars, dedupVars, thrVars, ctxVars, srchVars, grpVars, detVars, nameVars, branchVars, idemVars>>
notThr == <<chatVars, dispVars, hookVars, dedupVars, asstVars, ctxVars, srchVars, grpVars, detVars, nameVars, branchVars, idemVars>>
notCtx == <<chatVars, dispVars, hookVars, dedupVars, asstVars, thrVars, srchVars, grpVars, detVars, nameVars, branchVars, idemVars>>
notSrch == <<chatVars, dispVars, hookVars, dedupVars, asstVars, thrVars, ctxVars, grpVars, detVars, nameVars, branchVars, idemVars>>
notGrp == <<chatVars, dispVars, hookVars, dedupVars, asstVars, thrVars, ctxVars, srchVars, detVars, nameVars, branchVars, idemVars>>
notDet == <<chatVars, dispVars, hookVars, dedupVars, asstVars, thrVars, ctxVars, srchVars, grpVars, nameVars, branchVars, idemVars>>
notName == <<chatVars, dispVars, hookVars, dedupVars, asstVars, thrVars, ctxVars, srchVars, grpVars, detVars, branchVars, idemVars>>
notBranch == <<chatVars, dispVars, hookVars, dedupVars, asstVars, thrVars, ctxVars, srchVars, grpVars, detVars, nameVars, idemVars>>
notIdem == <<chatVars, dispVars, hookVars, dedupVars, asstVars, thrVars, ctxVars, srchVars, grpVars, detVars, nameVars, branchVars>>

-----------------------------------------------------------------------------
(* Values *)

NoneVal == "<None>"

\* Python truthiness of an Optional[str].
Truthy(s) == s # NoneVal /\ s # ""

\* Model bounds.
MaxCalls == 2          \* tool calls carried by one model turn

\* self.tool_call_retry_limit of the chat and gemini providers.
tool_call_retry_limit == 2

ChatApology == "Ocurrio un error inesperado con nuestro asistente. Por favor, intenta de nuevo."
GeminiNoInput == "Lo siento, no pude procesar tu solicitud."
GeminiLimitText == "Parece que estoy teniendo dificultades para completar tu solicitud."
GeminiApiError == "El servicio de IA (Google) esta experimentando un problema."
GeminiUnexpected == "Ocurrio un error inesperado al procesar tu solicitud con Google AI."
FallbackReply == "Lo siento, no pude generar una respuesta en este momento."
ModelText == "respuesta del modelo"

-----------------------------------------------------------------------------
(* Tool dispatch: _execute_tool_calls of the three providers.              *)
(* A tool call is [id, name, args, outcome]:                               *)
(*   args    "valid" (a JSON object), "non_object" (valid JSON that is not *)
(*           an object, e.g. "[]"), "invalid_json";                        *)
(*   outcome what the handler behind the tool does when it is reached:     *)
(*           "success" (returns its normal value), "none" (returns None,   *)
(*           its internal-fault value), "throws".                          *)

ChatDispatchNames ==
  {"find_products", "get_available_brands", "get_branch_address",
   "query_accessories", "get_location_details_from_address",
   "save_customer_reservation_details", "send_whatsapp_order_summary_template"}

AssistantDispatchNames ==
  ChatDispatchNames \cup {"route_to_sales_department", "route_to_human_support"}

GeminiDispatchNames == {"search_local_products", "get_live_product_details"}

ArgKinds == {"valid", "non_object", "invalid_json"}
Outcomes == {"success", "none", "throws"}

ToolResult(tc, status, message) ==
  [tool_call_id |-> tc.id, name |-> tc.name, status |-> status, message |-> message]

\* Marks a dispatcher that lets an exception escape.
Raised(tc) == ToolResult(tc, "RAISED", "exception")

\* Status the chat dispatcher writes for a handler that was reached with
\* an argument object and did not throw.
ChatHandlerStatus(tc) ==
  CASE tc.name \in {"find_products", "get_branch_address",
                    "get_location_details_from_address"} ->
         IF tc.outcome = "none" THEN "error" ELSE "success"     \* _format_results
    [] tc.name \in {"get_available_brands", "query_accessories"} ->
         IF tc.outcome = "none" THEN "not_found" ELSE "success"
    [] tc.name = "save_customer_reservation_details" ->
         "no_action"    \* store_reservation_detail returns None: saved_keys is empty
    [] OTHER -> "success"

ChatDispatchOne_raises(tc) ==
  IF tc.name \notin ChatDispatchNames THEN Raised(tc)
  ELSE ToolResult(tc, "success", "")

ChatDispatchOne(tc) ==
  IF tc.args = "invalid_json"
  THEN ToolResult(tc, "error", "Error interno al ejecutar")          \* json.loads raises
  ELSE IF tc.name = "send_whatsapp_order_summary_template"
  THEN ToolResult(tc, "success", "OK_TEMPLATE_SENT")
  ELSE IF tc.name \in ChatDispatchNames
  THEN IF tc.args = "non_object" \/ tc.outcome = "throws"
       THEN ToolResult(tc, "error", "Error interno al ejecutar")     \* args.get / handler raises
       ELSE ToolResult(tc, ChatHandlerStatus(tc), "")
  ELSE ToolResult(tc, "error", "Herramienta desconocida")

GeminiDispatchOne(tc) ==
  IF tc.args = "invalid_json"
  THEN ToolResult(tc, "error", "Error interno ejecutando la herramienta")
  ELSE IF tc.name \in GeminiDispatchNames
  THEN IF tc.args = "non_object" \/ tc.outcome = "throws"
       THEN ToolResult(tc, "error", "Error interno ejecutando la herramienta")
       ELSE IF tc.name = "search_local_products"
            \* product_service defines no search_local_products: AttributeError
            THEN ToolResult(tc, "error", "Error interno ejecutando la herramienta")
            ELSE ToolResult(tc, IF tc.outcome = "none" THEN "not_found" ELSE "success", "")
  ELSE ToolResult(tc, "error", "Herramienta desconocida")

\* Status the assistant dispatcher writes for a handler that did not throw.
\* Invalid JSON arguments are replaced by {} and the handler still runs.
AssistantHandlerStatus(tc) ==
  CASE tc.name \in {"find_products", "get_branch_address",
                    "get_location_details_from_address"} ->
         IF tc.outcome = "none" THEN "null" ELSE "success"      \* json.dumps(None)
    [] tc.name \in {"get_available_brands", "query_accessories"} ->
         IF tc.outcome = "none" THEN "not_found" ELSE "success"
    [] tc.name = "save_customer_reservation_details" -> "no_action"
    [] OTHER -> "success"

RoutingNames == {"route_to_sales_department", "route_to_human_support"}

AssistantDispatchOne(tc) ==
  IF tc.name \in {"send_whatsapp_order_summary_template"}
  THEN ToolResult(tc, "success", "OK_TEMPLATE_SENT")
  ELSE IF tc.name \in RoutingNames       \* lines 247-253: args are not read
  THEN IF tc.outcome = "throws"
       THEN ToolResult(tc, "error", "Error interno en")
       ELSE ToolResult(tc, "success", "Conversation has been routed")
  ELSE IF tc.name \in AssistantDispatchNames
  THEN IF tc.args = "non_object" \/ tc.outcome = "throws"
       THEN ToolResult(tc, "error", "Error interno en")
       ELSE ToolResult(tc, AssistantHandlerStatus(tc), "")
  ELSE ToolResult(tc, "error", "Herramienta desconocida")

DispatchOne(provider, tc) ==
  CASE provider = "openai_chat" -> ChatDispatchOne(tc)
    [] provider = "google_gemini" -> GeminiDispatchOne(tc)
    [] OTHER -> AssistantDispatchOne(tc)

\* The Support Board operations invoked while one call is handled:
\* route_conversation_to_sales / _to_support (support_board_service lines
\* 700-741) assign the department and then request the human takeover; the
\* template branch of both dispatchers calls nothing.
GatewayOps(provider, tc) ==
  IF provider = "openai_assistant" /\ tc.name \in RoutingNames /\ tc.outcome # "throws"
  THEN <<"update-conversation-department", "sb-human-takeover">>
  ELSE <<>>

\* The for-loop of _execute_tool_calls: one result per call, in order. An
\* exception escaping one call ends the loop: no list is returned.
RECURSIVE ExecFrom(_, _, _)
ExecFrom(provider, calls, i) ==
  IF i > Len(calls) THEN <<>>
  ELSE LET r == DispatchOne(provider, calls[i])
       IN  IF r.status = "RAISED" THEN <<r>>
           ELSE <<r>> \o ExecFrom(provider, calls, i + 1)

execute_tool_calls(provider, calls) == ExecFrom(provider, calls, 1)

DispatchRaised(outs) == \E i \in 1..Len(outs) : outs[i].status = "RAISED"

-----------------------------------------------------------------------------
(* Inputs of the models *)

MkCall(n, a, o) == [name |-> n, args |-> a, outcome |-> o]

\* Tool calls a model turn may carry in the tool loop.
LoopCalls ==
  { MkCall("find_products", "valid", "success"),
    MkCall("find_products", "valid", "throws"),
    MkCall("find_products", "invalid_json", "success"),
    MkCall("search_local_products", "valid", "success"),
    MkCall("search_local_products", "non_object", "success"),
    MkCall("no_such_tool", "valid", "success") }

AllToolNames ==
  AssistantDispatchNames \cup GeminiDispatchNames
    \cup {"get_location_details_from_user", "no_such_tool"}

\* Tool calls handed to a dispatcher on its own.
DispatchCalls ==
  { MkCall(n, "valid", "success") : n \in AllToolNames }
    \cup { MkCall("find_products", a, o) : a \in ArgKinds, o \in Outcomes }
    \cup { MkCall("send_whatsapp_order_summary_template", a, "success") : a \in ArgKinds }
    \cup { MkCall("route_to_sales_department", "valid", "throws"),
           MkCall("get_live_product_details", "valid", "throws"),
           MkCall("no_such_tool", "invalid_json", "success"),
           MkCall("no_such_tool", "non_object", "throws") }

\* The lists of 1..MaxCalls calls over an alphabet, ids numbered in order.
CallLists(alphabet) ==
  UNION { { [i \in 1..k |-> [id |-> i, name |-> f[i].name, args |-> f[i].args,
                             outcome |-> f[i].outcome]] : f \in [1..k -> alphabet] }
          : k \in 1..MaxCalls }

-----------------------------------------------------------------------------
(* Specification SpecDispatch: one call of _execute_tool_calls.            *)

ThrIdle ==
  /\ threadMap = {} /\ threadsMade = 0 /\ tPc = <<>> /\ tConv = <<>>
  /\ tThread = <<>> /\ tSaw = <<>> /\ firstStored = <<>>

CtxIdle ==
  /\ sb_history_list = <<>> /\ new_user_message = "" /\ geoError = FALSE
  /\ openai_history = <<>> /\ messages = <<>> /\ ctxPc = "" /\ ctxCount = 0
  /\ firstContext = <<>> /\ roundLog = <<>> /\ sbAdded = 0 /\ ctxResponse = ""

SrchIdle ==
  /\ catalog = {} /\ conversation_city = "" /\ fpQuery = {} /\ fpCity = ""
  /\ fpEmbedOk = FALSE /\ fpScope = {} /\ fpResult = <<>> /\ fpOutput = <<>>
  /\ fpCalled = FALSE /\ fpPc = ""

GrpIdle ==
  /\ gList = <<>> /\ gOut = <<>> /\ gFirst = {} /\ gPc = ""

DetIdle ==
  /\ reservation = <<>> /\ resCity = "" /\ dArgs = <<>> /\ dStatus = "" /\ dLast = ""
  /\ accScope = {}

NameIdle ==
  whsIn = <<>> /\ itemIn = <<>> /\ canon1 = <<>> /\ canon2 = <<>> /\ locId = <<>> /\ nPc = ""

BranchIdle ==
  bRows = {} /\ bName = "" /\ bCity = "" /\ bResult = <<>> /\ bPc = ""

IdemIdle ==
  iNow = 0 /\ iKeys = {} /\ iLog = <<>>

ChatIdle ==
  /\ aiProvider = "openai_chat" /\ apiKeySet = TRUE /\ histEmpty = FALSE
  /\ newMsg = TRUE /\ pc = "off" /\ tool_call_count = 0 /\ modelCalls = 0
  /\ toolsExecuted = 0 /\ pendingCalls = <<>> /\ toolOutputs = <<>>
  /\ final_assistant_response = NoneVal /\ modelCallFailed = FALSE
  /\ replies = <<>>

DispIdle ==
  /\ dProvider = "openai_chat" /\ dCalls = <<>> /\ dOutputs = <<>> /\ dpc = "off"
  /\ dGateway = <<>>

NoDecision ==
  [id |-> 0, sender |-> "none", kind |-> "none", decision |-> "none", at |-> 0,
   passedAt |-> -1,
   pausedThen |-> FALSE, lastOther |-> "none", gateway |-> <<>>]

NWorkers == 2
Workers == 1..NWorkers

AsstIdle ==
  /\ lockOwner = 0 /\ lockAge = 0
  /\ wPc = [w \in Workers |-> "off"] /\ wElapsed = [w \in Workers |-> 0]
  /\ wWaitOn = [w \in Workers |-> 0]
  /\ runStatus = [w \in Workers |-> "none"] /\ latestRun = 0
  /\ did = [w \in Workers |-> {}] /\ lockFailed = [w \in Workers |-> FALSE]
  /\ wReplies = [w \in Workers |-> 0] /\ conflict = FALSE

NHandlers == 3
Handlers == 1..NHandlers

DedupIdle ==
  /\ cWaidSrc = "none" /\ cPc = [h \in Handlers |-> "off"]
  /\ cWaid = [h \in Handlers |-> 0] /\ cKeys = {} /\ cDeleted = FALSE

HookIdle ==
  /\ tagConfigured = FALSE /\ proxyConfigured = FALSE
  /\ hNow = 0 /\ hDeliveries = 0 /\ posted = <<>> /\ deleted = {} /\ redisKeys = {}
  /\ pausedUntil = 0 /\ agentTimes = {} /\ aiCalls = 0
  /\ lastDecision = NoDecision

InitDispatch ==
  /\ ChatIdle /\ HookIdle /\ DedupIdle /\ AsstIdle /\ ThrIdle /\ CtxIdle /\ SrchIdle /\ GrpIdle /\ DetIdle /\ NameIdle /\ BranchIdle /\ IdemIdle
  /\ dProvider \in {"openai_chat", "openai_assistant", "google_gemini"}
  /\ dCalls \in CallLists(DispatchCalls)
  /\ dOutputs = <<>>
  /\ dGateway = <<>>
  /\ dpc = "call"

\* _execute_tool_calls(tool_calls, sb_conversation_id)
ExecuteToolCalls ==
  /\ dpc = "call"
  /\ dOutputs' = execute_tool_calls(dProvider, dCalls)
  /\ dGateway' = [i \in 1..Len(dOutputs') |-> GatewayOps(dProvider, dCalls[i])]
  /\ dpc' = IF DispatchRaised(dOutputs') THEN "raised" ELSE "returned"
  /\ UNCHANGED <<dProvider, dCalls, notDisp>>

NextDispatch == ExecuteToolCalls

SpecDispatch == InitDispatch /\ [][NextDispatch]_vars

\* C3: _execute_tool_calls never lets an exception escape, returns exactly
\* one result per requested call (same order, same tool_call_id), and a call
\* whose tool name the provider's dispatcher does not recognise, or whose
\* handler throws, gets a result with status "error" (the other calls of
\* the round are still answered).
DispatcherNames(provider) ==
  CASE provider = "openai_chat" -> ChatDispatchNames
    [] provider = "google_gemini" -> GeminiDispatchNames
    [] OTHER -> AssistantDispatchNames

HandlerThrows(provider, tc) ==
  /\ tc.outcome = "throws"
  /\ tc.name \in DispatcherNames(provider) \ {"send_whatsapp_order_summary_template"}
  /\ (tc.args = "valid" \/ (provider = "openai_assistant" /\ tc.args = "invalid_json"))

C3_DispatchNeverRaises ==
  /\ dpc # "raised"
  /\ dpc = "returned" =>
       /\ Len(dOutputs) = Len(dCalls)
       /\ \A i \in 1..Len(dCalls) :
            /\ dOutputs[i].tool_call_id = dCalls[i].id
            /\ (dCalls[i].name \notin DispatcherNames(dProvider)
                  \/ HandlerThrows(dProvider, dCalls[i]))
                 => dOutputs[i].status = "error"

\* A round of two calls, the first to an unknown tool, the second answered
\* with success.
C3_Witness ==
  /\ dpc = "returned" /\ Len(dCalls) = 2
  /\ dCalls[1].name = "no_such_tool" /\ dOutputs[1].status = "error"
  /\ dCalls[2].name = "find_products" /\ dOutputs[2].status = "success"

\* the names of tools_schema, as sent to the model with every call
ChatSchemaNames == ChatDispatchNames \cup {"get_location_details_from_user"}
GeminiSchemaNames == {"search_local_products", "get_live_product_details"}
SchemaNames(provider) ==
  CASE provider = "openai_chat" -> ChatSchemaNames
    [] provider = "google_gemini" -> GeminiSchemaNames
    [] OTHER -> {}      \* the assistant's tools are configured at the backend

\* C33: a call to a tool that the adapter's schema lists never gets the
\* unknown-tool error, and with well-formed arguments and a working handler
\* it gets no error at all (no handler is missing).
C33_SchemaToolsHandled ==
  dpc = "returned" =>
    \A i \in 1..Len(dCalls) :
      dCalls[i].name \in SchemaNames(dProvider) =>
        /\ dOutputs[i].message # "Herramienta desconocida"
        /\ (dCalls[i].args = "valid" /\ dCalls[i].outcome = "success")
             => dOutputs[i].status # "error"

\* the same for the seven tools the chat dispatcher has a branch for
C33_ChatBranchesHandled ==
  (dpc = "returned" /\ dProvider = "openai_chat") =>
    \A i \in 1..Len(dCalls) :
      dCalls[i].name \in ChatDispatchNames =>
        /\ dOutputs[i].message # "Herramienta desconocida"
        /\ (dCalls[i].args = "valid" /\ dCalls[i].outcome = "success")
             => dOutputs[i].status # "error"

\* the gateway operation that belongs to a tool
MatchingGatewayOps(name) ==
  IF name = "send_whatsapp_order_summary_template"
  THEN <<"messaging-platforms-send-template">>
  ELSE <<"update-conversation-department", "sb-human-takeover">>

GatewayTools == RoutingNames \cup {"send_whatsapp_order_summary_template"}

\* C27: a call of send_whatsapp_order_summary_template, route_to_sales_department
\* or route_to_human_support that the dispatcher answers with success had
\* its gateway operation (template send, or department assignment followed
\* by human takeover) invoked during the call.
C27_SuccessMeansGatewayInvoked ==
  dpc = "returned" =>
    \A i \in 1..Len(dCalls) :
      (dCalls[i].name \in GatewayTools /\ dOutputs[i].status = "success")
        => dGateway[i] = MatchingGatewayOps(dCalls[i].name)

\* the same for the two routing tools alone
C27_RoutingInvokesGateway ==
  dpc = "returned" =>
    \A i \in 1..Len(dCalls) :
      (dCalls[i].name \in RoutingNames /\ dOutputs[i].status = "success")
        => dGateway[i] = MatchingGatewayOps(dCalls[i].name)

-----------------------------------------------------------------------------
(* Specification Spec: one customer turn through                           *)
(* ai_service.process_new_message with the chat or the gemini provider.    *)

Providers == {"openai_chat", "google_gemini", "unsupported_name"}

Init ==
  /\ DispIdle /\ HookIdle /\ DedupIdle /\ AsstIdle /\ ThrIdle /\ CtxIdle /\ SrchIdle /\ GrpIdle /\ DetIdle /\ NameIdle /\ BranchIdle /\ IdemIdle
  /\ aiProvider \in Providers
  /\ apiKeySet \in BOOLEAN
  /\ histEmpty \in BOOLEAN
  /\ newMsg \in BOOLEAN
  /\ pc = "start"
  /\ tool_call_count = 0 /\ modelCalls = 0 /\ toolsExecuted = 0
  /\ pendingCalls = <<>> /\ toolOutputs = <<>>
  /\ final_assistant_response = NoneVal
  /\ modelCallFailed = FALSE
  /\ replies = <<>>

\* get_ai_provider() returns a provider (it raises ValueError otherwise).
get_ai_provider_ok(provider, key) ==
  provider \in {"openai_chat", "google_gemini"} /\ key

\* The while condition of the tool loop.
LoopGuard_unbounded(count) == TRUE

LoopGuard(count) == count <= tool_call_retry_limit

\* What process_message returns when the model call raises.
\* kind: "rate_or_timeout" (RateLimitError, APITimeoutError) or "other".
ModelFailureText(provider, kind) ==
  IF provider = "openai_chat" THEN ChatApology
  ELSE IF kind = "rate_or_timeout" THEN GeminiApiError ELSE GeminiUnexpected

\* The value process_message returns once the loop is left without an
\* exception: gemini replaces a missing text by its limit text.
AfterLoop(provider, final) ==
  IF provider = "google_gemini" /\ ~Truthy(final) THEN GeminiLimitText ELSE final

\* The text process_new_message hands to send_reply_to_channel.
ReplyText(final) == IF Truthy(final) THEN final ELSE FallbackReply

\* process_new_message, lines 71-82: the provider factory. On a
\* configuration error the except block calls send_reply_to_channel without
\* its required parameter conversation_details: the call raises TypeError
\* before the function body runs, and the error leaves process_new_message.
GetAiProvider ==
  /\ pc = "start"
  /\ IF get_ai_provider_ok(aiProvider, apiKeySet)
     THEN pc' = "process_message"
     ELSE pc' = "raised"
  /\ UNCHANGED <<aiProvider, apiKeySet, histEmpty, newMsg, tool_call_count,
                 modelCalls, toolsExecuted, pendingCalls, toolOutputs,
                 final_assistant_response, modelCallFailed, replies, notChat>>

\* provider.process_message up to the tool loop: history formatting and the
\* early returns for an empty context.
ProcessMessageEntry ==
  /\ pc = "process_message"
  /\ IF histEmpty /\ ~newMsg
     THEN /\ final_assistant_response' =
               (IF aiProvider = "openai_chat" THEN NoneVal ELSE GeminiNoInput)
          /\ pc' = "returned"
     ELSE /\ final_assistant_response' = NoneVal
          /\ pc' = "model_call"
  /\ tool_call_count' = 0
  /\ UNCHANGED <<aiProvider, apiKeySet, histEmpty, newMsg, modelCalls,
                 toolsExecuted, pendingCalls, toolOutputs, modelCallFailed,
                 replies, notChat>>

\* What the loop does when client.chat.completions.create raises.
OnModelCallFailure_retry(kind) ==
  /\ modelCallFailed' = TRUE
  /\ pc' = "model_call"
  /\ UNCHANGED <<final_assistant_response, pendingCalls>>

OnModelCallFailure(kind) ==
  /\ modelCallFailed' = TRUE
  /\ final_assistant_response' = ModelFailureText(aiProvider, kind)
  /\ pc' = "returned"
  /\ UNCHANGED pendingCalls

\* One model call of the loop (lines 222-233 chat, 104-120 gemini).
ModelCallFails ==
  /\ pc = "model_call"
  /\ LoopGuard(tool_call_count)
  /\ modelCalls' = modelCalls + 1
  /\ \E kind \in {"rate_or_timeout", "other"} : OnModelCallFailure(kind)
  /\ UNCHANGED <<aiProvider, apiKeySet, histEmpty, newMsg, tool_call_count,
                 toolsExecuted, toolOutputs, replies, notChat>>

ModelCallText ==
  /\ pc = "model_call"
  /\ LoopGuard(tool_call_count)
  /\ modelCalls' = modelCalls + 1
  /\ \E content \in {NoneVal, "", ModelText} :
       final_assistant_response' = AfterLoop(aiProvider, content)
  /\ pc' = "returned"
  /\ UNCHANGED <<aiProvider, apiKeySet, histEmpty, newMsg, tool_call_count,
                 toolsExecuted, pendingCalls, toolOutputs, modelCallFailed,
                 replies, notChat>>

ModelCallTools ==
  /\ pc = "model_call"
  /\ LoopGuard(tool_call_count)
  /\ modelCalls' = modelCalls + 1
  /\ \E calls \in CallLists(LoopCalls) : pendingCalls' = calls
  /\ toolOutputs' = <<>>
  /\ pc' = "exec_tools"
  /\ UNCHANGED <<aiProvider, apiKeySet, histEmpty, newMsg, tool_call_count,
                 toolsExecuted, final_assistant_response, modelCallFailed,
                 replies, notChat>>

\* The rest of the round (lines 235-240 chat, 122-128 gemini): the tools are
\* executed, the counter is incremented and the loop condition is tested.
ExecuteRound ==
  /\ pc = "exec_tools"
  /\ toolOutputs' = execute_tool_calls(aiProvider, pendingCalls)
  /\ toolsExecuted' = toolsExecuted + Len(pendingCalls)
  /\ tool_call_count' = tool_call_count + 1
  /\ IF DispatchRaised(toolOutputs')
     THEN /\ modelCallFailed' = modelCallFailed
          /\ final_assistant_response' = ModelFailureText(aiProvider, "other")
          /\ pc' = "returned"
     ELSE IF LoopGuard(tool_call_count')
     THEN /\ pc' = "model_call"
          /\ UNCHANGED <<final_assistant_response, modelCallFailed>>
     ELSE /\ pc' = "returned"
          /\ final_assistant_response' = AfterLoop(aiProvider, final_assistant_response)
          /\ UNCHANGED modelCallFailed
  /\ pendingCalls' = <<>>
  /\ UNCHANGED <<aiProvider, apiKeySet, histEmpty, newMsg, modelCalls, replies,
                 notChat>>

\* process_new_message, lines 120-139: the reply.
SendReply ==
  /\ pc = "returned"
  /\ replies' = Append(replies, ReplyText(final_assistant_response))
  /\ pc' = "done"
  /\ UNCHANGED <<aiProvider, apiKeySet, histEmpty, newMsg, tool_call_count,
                 modelCalls, toolsExecuted, pendingCalls, toolOutputs,
                 final_assistant_response, modelCallFailed, notChat>>

Next ==
  \/ GetAiProvider
  \/ ProcessMessageEntry
  \/ ModelCallFails
  \/ ModelCallText
  \/ ModelCallTools
  \/ ExecuteRound
  \/ SendReply

Spec == Init /\ [][Next]_vars

\* C35: in the chat tool loop every round of executed tool calls is followed
\* by a model call made with their tool results: when process_message has
\* returned, the model was called more often than rounds were executed.
C35_RoundFollowedByModelCall ==
  (pc \in {"returned", "done"} /\ aiProvider = "openai_chat" /\ tool_call_count > 0)
    => modelCalls > tool_call_count

\* What does hold: a round that leaves the counter within the retry limit is
\* followed by a model call, unless the dispatch itself raised.
C35_RoundBelowLimitFollowed ==
  (pc \in {"returned", "done"} /\ aiProvider = "openai_chat" /\ tool_call_count > 0
     /\ tool_call_count <= tool_call_retry_limit /\ ~DispatchRaised(toolOutputs))
    => modelCalls = tool_call_count + 1

C4_ModelFailureAborts ==
  /\ [](modelCallFailed /\ aiProvider = "openai_chat"
          => /\ pc \in {"returned", "done"}
             /\ final_assistant_response = ChatApology)
  /\ [][modelCallFailed /\ aiProvider = "openai_chat"
          => /\ modelCalls' = modelCalls
             /\ toolsExecuted' = toolsExecuted]_vars

\* The model call of the second round failed, after a round of tools; the
\* apology was sent.
C4_Witness ==
  /\ modelCallFailed /\ aiProvider = "openai_chat"
  /\ modelCalls = 2 /\ toolsExecuted > 0
  /\ pc = "done" /\ replies = <<ChatApology>>

\* C30: when the provider cannot be constructed (unsupported AI_PROVIDER or
\* missing API key) process_new_message sends one apology through
\* send_reply_to_channel and returns normally: nothing is raised to the
\* webhook handler and no model is called.
C30_ConfigErrorApology ==
  (pc # "start" /\ ~get_ai_provider_ok(aiProvider, apiKeySet))
    => /\ pc # "raised"
       /\ Len(replies) = 1
       /\ modelCalls = 0

\* what does hold on that path: no model call and no tool execution
C30_ConfigErrorCallsNoModel ==
  (pc # "start" /\ ~get_ai_provider_ok(aiProvider, apiKeySet))
    => modelCalls = 0 /\ toolsExecuted = 0

\* ------------------------------------------------------------------------
\* The Support Board webhook, api/routes.py handle_support_board_webhook.
\* One conversation; a delivery is handled from its first line to its return
\* before the next one starts (the concurrent case is SpecDedup below).
\* Redis, the database and the Support Board API answer every call: the
\* handler's except branches for their failures are not taken here.
\* ------------------------------------------------------------------------
DM_BOT_ID == "bot"
COMMENT_BOT_PROXY_USER_ID == "proxy"
HUMAN_AGENT_IDS_SET == {"agent"}
customer_user_id == "user"

WaidTtl == 30
IDEMPOTENCY_TTL == 300
HUMAN_TAKEOVER_PAUSE_MINUTES == 43200
PauseSeconds == HUMAN_TAKEOVER_PAUSE_MINUTES * 60

MaxDeliveries == 3

\* A message of the conversation as the handler sees it: who sent it, whether
\* its text carries the comment-bot tag, where its WhatsApp id can be read
\* from (the webhook payload, the stored message, nowhere), and whether it is
\* a plain text, carries eight order_confirmation_variables, or is a text from
\* which the LLM extraction returns every required customer field.
Shape(s, t, w, k) == [sender |-> s, tagged |-> t, waidSrc |-> w, kind |-> k]

MessageShapes ==
  { Shape(COMMENT_BOT_PROXY_USER_ID, TRUE, "none", "plain"),
    Shape(COMMENT_BOT_PROXY_USER_ID, FALSE, "none", "plain"),
    Shape("agent", FALSE, "none", "plain"),
    Shape(customer_user_id, FALSE, "payload", "plain"),
    Shape(customer_user_id, FALSE, "sb", "plain"),
    Shape(customer_user_id, FALSE, "none", "plain"),
    Shape(customer_user_id, FALSE, "none", "order"),
    Shape(customer_user_id, FALSE, "none", "template") }

BotMessage == Shape(DM_BOT_ID, FALSE, "none", "plain")

Stored(shape, id) ==
  [id |-> id, sender |-> shape.sender, tagged |-> shape.tagged,
   waidSrc |-> shape.waidSrc, kind |-> shape.kind, passedAt |-> -1]

\* get_sb_conversation_data(...)['messages']
FetchedHistory(msgs, gone) == SelectSeq(msgs, LAMBDA m : m.id \notin gone)

\* the waid of the payload, else extract_waid_from_conversation; 0 is None
WaidOf(m, gone) ==
  IF m.waidSrc = "payload" THEN m.id
  ELSE IF m.waidSrc = "sb" /\ m.id \notin gone THEN m.id
  ELSE 0

WaidKey(w) == [ns |-> "waid", of |-> "waid", id |-> w]
CacheKey(m, w) ==
  IF w # 0 THEN [ns |-> "sb_webhook_processed", of |-> "waid", id |-> w]
  ELSE [ns |-> "sb_webhook_processed", of |-> "message_id", id |-> m.id]

KeyLive(keys, k, now) == \E r \in keys : r.key = k /\ r.exp > now
SetEx(keys, k, exp) == {r \in keys : r.key # k} \cup {[key |-> k, exp |-> exp]}
SetNx(keys, k, exp, now) == IF KeyLive(keys, k, now) THEN keys ELSE SetEx(keys, k, exp)

\* Part 1 (SET NX, 30 s) and Part 2 (exists, then setex IDEMPOTENCY_TTL)
DedupOutcome(keys, m, gone, now) ==
  LET w == WaidOf(m, gone) IN
  IF w # 0 /\ KeyLive(keys, WaidKey(w), now) THEN "dup_waid"
  ELSE IF KeyLive(keys, CacheKey(m, w), now) THEN "dup_generic"
  ELSE "new"

GenericTtl == IDEMPOTENCY_TTL

DedupKeys(keys, m, gone, now) ==
  LET w == WaidOf(m, gone)
      afterWaid == IF w # 0 THEN SetNx(keys, WaidKey(w), now + WaidTtl, now) ELSE keys
  IN  IF DedupOutcome(keys, m, gone, now) = "new"
        THEN SetEx(afterWaid, CacheKey(m, w), now + GenericTtl)
        ELSE afterWaid

\* the history loop of Rule 4: is_hist_comment_bot
is_hist_comment_bot_any_proxy(msg) ==
  /\ proxyConfigured
  /\ msg.sender = COMMENT_BOT_PROXY_USER_ID

is_hist_comment_bot(msg) ==
  /\ proxyConfigured
  /\ msg.sender = COMMENT_BOT_PROXY_USER_ID
  /\ \/ tagConfigured /\ msg.tagged
     \/ ~tagConfigured

RECURSIVE ScanReversed(_, _)
ScanReversed(h, i) ==
  IF i = 0 THEN FALSE
  ELSE IF h[i].sender = customer_user_id THEN ScanReversed(h, i - 1)
  ELSE IF h[i].sender = DM_BOT_ID THEN FALSE
  ELSE IF is_hist_comment_bot(h[i]) THEN FALSE
  ELSE TRUE

is_implicitly_human_handled(h) == ScanReversed(h, Len(h))

is_conversation_paused_never(until, now) == FALSE
is_conversation_paused(until, now) == until > now

\* the sender rules tried before the order-confirmation short cut
Classify_sender_first(m, h, until, now) ==
  IF m.sender = DM_BOT_ID THEN "bot_echo"
  ELSE IF m.sender \in HUMAN_AGENT_IDS_SET THEN "agent_pause"
  ELSE IF m.kind = "order" THEN "order_confirmation"
  ELSE "ai"

\* Rules 1 to 5, after the order-confirmation short cut
Classify(m, h, until, now) ==
  IF m.kind = "order" THEN "order_confirmation"
  ELSE IF m.sender = DM_BOT_ID THEN "bot_echo"
  ELSE IF proxyConfigured /\ m.sender = COMMENT_BOT_PROXY_USER_ID
    THEN IF tagConfigured /\ ~m.tagged THEN "proxy_human_pause" ELSE "comment_bot"
  ELSE IF m.sender \in HUMAN_AGENT_IDS_SET THEN "agent_pause"
  ELSE IF m.sender = customer_user_id
    THEN IF is_conversation_paused(until, now) THEN "explicit_paused"
         ELSE IF is_implicitly_human_handled(h) THEN "implicit_human"
         ELSE IF m.kind = "template" THEN "template_sent"
         ELSE "ai"
  ELSE "unhandled_pause"

\* the Support Board operations the handler itself invokes after the
\* deduplication block (lines 130-132)
GatewayCalls(d) ==
  IF d = "order_confirmation"
  THEN <<"send_order_confirmation_template", "route_conversation_to_sales">>
  ELSE <<>>

Decision(keys, m, msgs, gone, until, now) ==
  IF DedupOutcome(keys, m, gone, now) # "new" THEN DedupOutcome(keys, m, gone, now)
  ELSE Classify(m, FetchedHistory(msgs, gone), until, now)

PauseDecisions == {"proxy_human_pause", "agent_pause", "unhandled_pause"}

\* who wrote the latest message of the history that is not the customer's
NonCustomer(h) == {i \in 1..Len(h) : h[i].sender # customer_user_id}
LastOther(h) ==
  IF NonCustomer(h) = {} THEN "absent"
  ELSE LET i == CHOOSE j \in NonCustomer(h) : \A k \in NonCustomer(h) : k <= j
       IN  IF h[i].sender = DM_BOT_ID THEN "bot"
           ELSE IF proxyConfigured /\ h[i].sender = COMMENT_BOT_PROXY_USER_ID
             THEN IF ~tagConfigured THEN "comment_bot_untagged"
                  ELSE IF h[i].tagged THEN "comment_bot_tagged" ELSE "human"
           ELSE "human"

InitHook ==
  /\ ChatIdle /\ DispIdle /\ DedupIdle /\ AsstIdle /\ ThrIdle /\ CtxIdle /\ SrchIdle /\ GrpIdle /\ DetIdle /\ NameIdle /\ BranchIdle /\ IdemIdle
  /\ tagConfigured \in BOOLEAN /\ proxyConfigured \in BOOLEAN
  /\ hNow = 0 /\ hDeliveries = 0
  /\ posted = <<>> /\ deleted = {} /\ redisKeys = {}
  /\ pausedUntil = 0 /\ agentTimes = {} /\ aiCalls = 0
  /\ lastDecision = NoDecision

\* handle_support_board_webhook for message i of msgs, first line to return
Handled(msgs, i) ==
  LET m == msgs[i]
      h == FetchedHistory(msgs, deleted)
      d == Decision(redisKeys, m, msgs, deleted, pausedUntil, hNow)
      passed == d \notin {"dup_waid", "dup_generic"}
      marked == [msgs EXCEPT ![i].passedAt = IF passed THEN hNow ELSE @]
  IN  /\ hDeliveries' = hDeliveries + 1
      /\ redisKeys' = DedupKeys(redisKeys, m, deleted, hNow)
      /\ deleted' = IF d = "dup_waid" THEN deleted \cup {m.id} ELSE deleted
      /\ pausedUntil' = IF d \in PauseDecisions THEN hNow + PauseSeconds
                        ELSE pausedUntil
      /\ agentTimes' = IF d = "agent_pause" THEN agentTimes \cup {hNow}
                       ELSE agentTimes
      /\ aiCalls' = IF d = "ai" THEN aiCalls + 1 ELSE aiCalls
      /\ \/ posted' = marked
         \/ /\ d = "ai"   \* the reply went out and was logged as the bot's
            /\ posted' = Append(marked, Stored(BotMessage, Len(msgs) + 1))
      /\ lastDecision' =
           [id |-> m.id, sender |-> m.sender, kind |-> m.kind, decision |-> d,
            at |-> hNow,
            passedAt |-> m.passedAt,
            pausedThen |-> (pausedUntil > hNow),
            lastOther |-> LastOther(h),
            gateway |-> GatewayCalls(d)]

\* a message is written into the conversation and its webhook is delivered
HandleWebhook ==
  /\ hDeliveries < MaxDeliveries
  /\ \E shape \in MessageShapes :
       Handled(Append(posted, Stored(shape, Len(posted) + 1)), Len(posted) + 1)
  /\ UNCHANGED <<tagConfigured, proxyConfigured, hNow, notHook>>

\* the webhook of a message of the conversation is delivered again
HandleRedelivery ==
  /\ hDeliveries < MaxDeliveries
  /\ \E i \in 1..Len(posted) : Handled(posted, i)
  /\ UNCHANGED <<tagConfigured, proxyConfigured, hNow, notHook>>

\* the clock moves on to the next moment at which a key or the pause runs out
Expiries == {r.exp : r \in redisKeys} \cup {pausedUntil}
Tick ==
  /\ \E t \in Expiries :
       /\ t > hNow
       /\ \A u \in Expiries : u > hNow => t <= u
       /\ hNow' = t
       /\ redisKeys' = {r \in redisKeys : r.exp > t}
  /\ UNCHANGED <<tagConfigured, proxyConfigured, hDeliveries, posted, deleted,
                 pausedUntil, agentTimes, aiCalls, lastDecision, notHook>>

NextHook == HandleWebhook \/ HandleRedelivery \/ Tick

SpecHook == InitHook /\ [][NextHook]_vars

\* Deliveries that may carry order_confirmation_variables from any sender
OrderShapes ==
  { Shape(customer_user_id, FALSE, "none", "order"),
    Shape("agent", FALSE, "none", "order"),
    Shape(DM_BOT_ID, FALSE, "none", "order"),
    Shape(COMMENT_BOT_PROXY_USER_ID, TRUE, "payload", "order"),
    Shape("agent", FALSE, "none", "plain"),
    Shape(customer_user_id, FALSE, "none", "plain") }

HandleOrderWebhook ==
  /\ hDeliveries < MaxDeliveries
  /\ \E shape \in OrderShapes :
       Handled(Append(posted, Stored(shape, Len(posted) + 1)), Len(posted) + 1)
  /\ UNCHANGED <<tagConfigured, proxyConfigured, hNow, notHook>>

NextOrder == HandleOrderWebhook \/ HandleRedelivery \/ Tick

SpecOrder == InitHook /\ [][NextOrder]_vars

\* C26: a delivery that passed deduplication and carries a list of eight
\* order_confirmation_variables sends the order-confirmation template, routes
\* the conversation to sales and returns without process_new_message,
\* whoever sent the message.
C26_OrderShortCut ==
  (lastDecision.kind = "order" /\ lastDecision.decision \notin {"dup_waid", "dup_generic"})
    => /\ lastDecision.decision = "order_confirmation"
       /\ lastDecision.gateway = <<"send_order_confirmation_template", "route_conversation_to_sales">>
       /\ lastDecision.decision # "ai"

C26_Witness ==
  /\ lastDecision.kind = "order" /\ lastDecision.sender = "agent"
  /\ lastDecision.decision = "order_confirmation"
  /\ lastDecision.pausedThen
  /\ aiCalls > 0

\* C5: a delivery of a message that already passed deduplication less than
\* IDEMPOTENCY_TTL seconds ago returns at the WAID check or at the generic
\* check, before sender classification and before process_new_message.
C5_RepeatDropped ==
  (lastDecision.passedAt >= 0 /\ lastDecision.at - lastDecision.passedAt < IDEMPOTENCY_TTL)
    => lastDecision.decision \in {"dup_waid", "dup_generic"}

DedupDecisions == {"dup_waid", "dup_generic"}

AfterEveryDeadline ==
  /\ agentTimes # {}
  /\ \A t \in agentTimes : lastDecision.at >= t + PauseSeconds
BeforeSomeDeadline ==
  \E t \in agentTimes : lastDecision.at < t + PauseSeconds

AgentMessages == {i \in 1..Len(posted) : posted[i].sender \in HUMAN_AGENT_IDS_SET}
NoNewerHumanMessage ==
  \A i \in AgentMessages : \A j \in (i + 1)..Len(posted) :
    \/ posted[j].sender \in {customer_user_id, DM_BOT_ID} \cup HUMAN_AGENT_IDS_SET
    \/ is_hist_comment_bot(posted[j])

TheMessage == [id |-> 1]

InitDedup ==
  /\ ChatIdle /\ DispIdle /\ HookIdle /\ AsstIdle /\ ThrIdle /\ CtxIdle /\ SrchIdle /\ GrpIdle /\ DetIdle /\ NameIdle /\ BranchIdle /\ IdemIdle
  /\ cWaidSrc \in {"payload", "sb", "none"}
  /\ cPc = [h \in Handlers |-> "start"]
  /\ cWaid = [h \in Handlers |-> 0]
  /\ cKeys = {}
  /\ cDeleted = FALSE

\* lines 83-94: the waid of the payload, else the one stored with the message
ResolveWaid(h) ==
  /\ cPc[h] = "start"
  /\ LET w == IF cWaidSrc = "payload" THEN TheMessage.id
              ELSE IF cWaidSrc = "sb" /\ ~cDeleted THEN TheMessage.id
              ELSE 0
     IN  /\ cWaid' = [cWaid EXCEPT ![h] = w]
         /\ cPc' = [cPc EXCEPT ![h] = IF w # 0 THEN "waid_setnx" ELSE "exists"]
  /\ UNCHANGED <<cWaidSrc, cKeys, cDeleted, notDedup>>

\* line 101: redis SET key "1" NX EX 30
WaidSetNx(h) ==
  /\ cPc[h] = "waid_setnx"
  /\ IF WaidKey(cWaid[h]) \in cKeys
       THEN /\ cPc' = [cPc EXCEPT ![h] = "delete_message"]
            /\ cKeys' = cKeys
       ELSE /\ cPc' = [cPc EXCEPT ![h] = "exists"]
            /\ cKeys' = cKeys \cup {WaidKey(cWaid[h])}
  /\ UNCHANGED <<cWaidSrc, cWaid, cDeleted, notDedup>>

\* lines 105-112: the duplicate is deleted from Support Board, return
DeleteDuplicate(h) ==
  /\ cPc[h] = "delete_message"
  /\ cDeleted' = TRUE
  /\ cPc' = [cPc EXCEPT ![h] = "dup_waid"]
  /\ UNCHANGED <<cWaidSrc, cWaid, cKeys, notDedup>>

\* line 121: redis EXISTS
GenericExists(h) ==
  /\ cPc[h] = "exists"
  /\ cPc' = [cPc EXCEPT ![h] =
       IF CacheKey(TheMessage, cWaid[h]) \in cKeys THEN "dup_generic" ELSE "setex"]
  /\ UNCHANGED <<cWaidSrc, cWaid, cKeys, cDeleted, notDedup>>

\* line 124: redis SETEX, then on to the order short cut and the sender rules
GenericSetex(h) ==
  /\ cPc[h] = "setex"
  /\ cKeys' = cKeys \cup {CacheKey(TheMessage, cWaid[h])}
  /\ cPc' = [cPc EXCEPT ![h] = "proceed"]
  /\ UNCHANGED <<cWaidSrc, cWaid, cDeleted, notDedup>>

NextDedup ==
  \E h \in Handlers :
    \/ ResolveWaid(h)
    \/ WaidSetNx(h)
    \/ DeleteDuplicate(h)
    \/ GenericExists(h)
    \/ GenericSetex(h)

SpecDedup == InitDedup /\ [][NextDedup]_vars

\* C6: of the deliveries of one message handled at the same time, at most one
\* gets past deduplication, whether or not the message has a WhatsApp id.
C6_AtMostOneProceeds ==
  Cardinality({h \in Handlers : cPc[h] = "proceed"}) <= 1

\* ------------------------------------------------------------------------
\* OpenAIAssistantProvider.process_message under ai_service.process_new_message:
\* each worker has entered process_new_message with one customer message of the
\* same conversation, whose thread an earlier turn has created. Every remote call may take long, so the
\* clock may move while a worker stands at any step.
\* ------------------------------------------------------------------------
run_timeout_seconds == 120
LockTimeout == run_timeout_seconds + 10
blocking_timeout == 5
TimeStep == 60
ElapsedCap == run_timeout_seconds + TimeStep

\* Run statuses: queued and in_progress are one status here, and so are the
\* three that line 174 treats alike, failed, cancelled and expired.
ActiveStatuses == {"in_progress", "requires_action"}
EndedBadly == "failed_cancelled_expired"
ActiveOther(w) == \E v \in Workers : v # w /\ runStatus[v] \in ActiveStatuses
Min(a, b) == IF a <= b THEN a ELSE b

InitAssistant ==
  /\ ChatIdle /\ DispIdle /\ HookIdle /\ DedupIdle /\ ThrIdle /\ CtxIdle /\ SrchIdle /\ GrpIdle /\ DetIdle /\ NameIdle /\ BranchIdle /\ IdemIdle
  /\ lockOwner = 0 /\ lockAge = 0
  /\ wPc = [w \in Workers |-> "acquire"] /\ wElapsed = [w \in Workers |-> 0]
  /\ wWaitOn = [w \in Workers |-> 0]
  /\ runStatus = [w \in Workers |-> "none"] /\ latestRun = 0
  /\ did = [w \in Workers |-> {}] /\ lockFailed = [w \in Workers |-> FALSE]
  /\ wReplies = [w \in Workers |-> 0] /\ conflict = FALSE

\* line 111: the key is free, SET NX PX succeeds
Acquire(w) ==
  /\ wPc[w] = "acquire"
  /\ lockOwner = 0
  /\ lockOwner' = w /\ lockAge' = 0
  /\ wPc' = [wPc EXCEPT ![w] = "get_thread"]
  /\ UNCHANGED <<wElapsed, wWaitOn, runStatus, latestRun, did, lockFailed,
                 wReplies, conflict, notAsst>>

\* where a worker goes when Lock.__enter__ raises LockError: the with statement
\* is outside the try, and process_new_message does not catch either
OnLockError_proceeds(w) == "get_thread"
OnLockError(w) == "raised"

\* line 111: the key stays set for the whole blocking_timeout
AcquireTimeout(w) ==
  /\ wPc[w] = "acquire"
  /\ lockOwner # 0
  /\ LockTimeout - lockAge > blocking_timeout
  /\ lockFailed' = [lockFailed EXCEPT ![w] = TRUE]
  /\ wPc' = [wPc EXCEPT ![w] = OnLockError(w)]
  /\ UNCHANGED <<lockOwner, lockAge, wElapsed, wWaitOn, runStatus, latestRun, did,
                 wReplies, conflict, notAsst>>

\* line 113: _get_or_create_thread_id finds the stored thread
GetThread(w) ==
  /\ wPc[w] = "get_thread"
  /\ did' = [did EXCEPT ![w] = @ \cup {"thread"}]
  /\ wPc' = [wPc EXCEPT ![w] = "wait_list"]
  /\ UNCHANGED <<lockOwner, lockAge, wElapsed, wWaitOn, runStatus, latestRun,
                 lockFailed, wReplies, conflict, notAsst>>

\* lines 55-61: runs.list(limit=1) and the first test of the while
WaitList(w) ==
  /\ wPc[w] = "wait_list"
  /\ IF latestRun # 0 /\ runStatus[latestRun] \in ActiveStatuses
       THEN /\ wPc' = [wPc EXCEPT ![w] = "wait_loop"]
            /\ wWaitOn' = [wWaitOn EXCEPT ![w] = latestRun]
       ELSE /\ wPc' = [wPc EXCEPT ![w] = "add_message"]
            /\ wWaitOn' = wWaitOn
  /\ wElapsed' = [wElapsed EXCEPT ![w] = 0]
  /\ UNCHANGED <<lockOwner, lockAge, runStatus, latestRun, did, lockFailed,
                 wReplies, conflict, notAsst>>

\* lines 62-65: the run hung, it is cancelled and RuntimeError reaches line 184
WaitTimeout(w) ==
  /\ wPc[w] = "wait_loop"
  /\ wElapsed[w] > run_timeout_seconds
  /\ runStatus' = [runStatus EXCEPT ![wWaitOn[w]] =
                     IF @ \in ActiveStatuses THEN EndedBadly ELSE @]
  /\ wPc' = [wPc EXCEPT ![w] = "release"]
  /\ wElapsed' = [wElapsed EXCEPT ![w] = 0]
  /\ wWaitOn' = [wWaitOn EXCEPT ![w] = 0]
  /\ UNCHANGED <<lockOwner, lockAge, latestRun, did, lockFailed,
                 wReplies, conflict, notAsst>>

\* lines 66-67 and 61: after the sleep the run is retrieved and has ended
WaitRetrieve(w) ==
  /\ wPc[w] = "wait_loop"
  /\ wElapsed[w] <= run_timeout_seconds
  /\ runStatus[wWaitOn[w]] \notin ActiveStatuses
  /\ wPc' = [wPc EXCEPT ![w] = "add_message"]
  /\ wElapsed' = [wElapsed EXCEPT ![w] = 0]
  /\ wWaitOn' = [wWaitOn EXCEPT ![w] = 0]
  /\ UNCHANGED <<lockOwner, lockAge, runStatus, latestRun, did,
                 lockFailed, wReplies, conflict, notAsst>>

\* lines 119-126: messages.create with the customer's text. While a run of
\* another worker is active the backend may refuse the request (the exception
\* reaches line 184) or take it.
AddMessage(w) ==
  /\ wPc[w] = "add_message"
  /\ conflict' = (conflict \/ ActiveOther(w))
  /\ \/ /\ did' = [did EXCEPT ![w] = @ \cup {"message"}]
        /\ wPc' = [wPc EXCEPT ![w] = "create_run"]
     \/ /\ ActiveOther(w)
        /\ did' = did
        /\ wPc' = [wPc EXCEPT ![w] = "release"]
  /\ UNCHANGED <<lockOwner, lockAge, wElapsed, wWaitOn, runStatus, latestRun,
                 lockFailed, wReplies, notAsst>>

\* lines 137-145: runs.create, then the polling clock starts
CreateRun(w) ==
  /\ wPc[w] = "create_run"
  /\ conflict' = (conflict \/ ActiveOther(w))
  /\ \/ /\ did' = [did EXCEPT ![w] = @ \cup {"run"}]
        /\ runStatus' = [runStatus EXCEPT ![w] = "in_progress"]
        /\ latestRun' = w
        /\ wElapsed' = [wElapsed EXCEPT ![w] = 0]
        /\ wPc' = [wPc EXCEPT ![w] = "poll"]
     \/ /\ ActiveOther(w)
        /\ UNCHANGED <<did, runStatus, latestRun, wElapsed>>
        /\ wPc' = [wPc EXCEPT ![w] = "release"]
  /\ UNCHANGED <<lockOwner, lockAge, wWaitOn, lockFailed, wReplies, notAsst>>

\* lines 146 and 180-182: the polling loop ran out of time
PollTimeout(w) ==
  /\ wPc[w] = "poll"
  /\ ~(wElapsed[w] < run_timeout_seconds)
  /\ wPc' = [wPc EXCEPT ![w] = "release"]
  /\ wElapsed' = [wElapsed EXCEPT ![w] = 0]
  /\ UNCHANGED <<lockOwner, lockAge, wWaitOn, runStatus, latestRun, did,
                 lockFailed, wReplies, conflict, notAsst>>

\* lines 147-178: one retrieve that does not find the run in_progress
PollRetrieve(w) ==
  /\ wPc[w] = "poll"
  /\ wElapsed[w] < run_timeout_seconds
  /\ \/ /\ runStatus[w] = "requires_action"   \* tools run, outputs submitted
        /\ did' = [did EXCEPT ![w] = @ \cup {"tool"}]
        /\ runStatus' = [runStatus EXCEPT ![w] = "in_progress"]
        /\ UNCHANGED <<wPc, wElapsed>>
     \/ /\ runStatus[w] \in {"completed", EndedBadly}
        /\ UNCHANGED <<did, runStatus>>
        /\ wPc' = [wPc EXCEPT ![w] = "release"]
        /\ wElapsed' = [wElapsed EXCEPT ![w] = 0]
  /\ UNCHANGED <<lockOwner, lockAge, wWaitOn, latestRun, lockFailed,
                 wReplies, conflict, notAsst>>

\* the end of the with block: Lock.release raises LockNotOwnedError when the
\* key is gone or holds another worker's token, and the return value is lost
Release(w) ==
  /\ wPc[w] = "release"
  /\ IF lockOwner = w
       THEN /\ lockOwner' = 0 /\ lockAge' = 0
            /\ wPc' = [wPc EXCEPT ![w] = "reply"]
       ELSE /\ UNCHANGED <<lockOwner, lockAge>>
            /\ wPc' = [wPc EXCEPT ![w] = "raised"]
  /\ UNCHANGED <<wElapsed, wWaitOn, runStatus, latestRun, did, lockFailed,
                 wReplies, conflict, notAsst>>

\* ai_service.py 120-139: the text, or the fixed fallback for None
SendAssistantReply(w) ==
  /\ wPc[w] = "reply"
  /\ wReplies' = [wReplies EXCEPT ![w] = @ + 1]
  /\ wPc' = [wPc EXCEPT ![w] = "done"]
  /\ UNCHANGED <<lockOwner, lockAge, wElapsed, wWaitOn, runStatus, latestRun, did,
                 lockFailed, conflict, notAsst>>

\* the backend works on a run
RunProgress(w) ==
  /\ runStatus[w] = "in_progress"
  /\ \E st \in {"requires_action", "completed", EndedBadly} :
       runStatus' = [runStatus EXCEPT ![w] = st]
  /\ UNCHANGED <<lockOwner, lockAge, wPc, wElapsed, wWaitOn, latestRun, did,
                 lockFailed, wReplies, conflict, notAsst>>

\* TimeStep seconds pass; the key expires LockTimeout seconds after it was set
TimePasses ==
  /\ \E w \in Workers : wPc[w] \notin {"done", "raised"}
  /\ IF lockOwner # 0 /\ lockAge + TimeStep >= LockTimeout
       THEN lockOwner' = 0 /\ lockAge' = 0
       ELSE /\ lockOwner' = lockOwner
            /\ lockAge' = IF lockOwner # 0 THEN lockAge + TimeStep ELSE 0
  /\ wElapsed' = [w \in Workers |->
                    IF wPc[w] \in {"wait_loop", "poll"}
                      THEN Min(wElapsed[w] + TimeStep, ElapsedCap)
                      ELSE wElapsed[w]]
  /\ UNCHANGED <<wPc, wWaitOn, runStatus, latestRun, did, lockFailed, wReplies,
                 conflict, notAsst>>

NextAssistant ==
  \/ \E w \in Workers :
       \/ Acquire(w) \/ AcquireTimeout(w) \/ GetThread(w)
       \/ WaitList(w) \/ WaitTimeout(w) \/ WaitRetrieve(w)
       \/ AddMessage(w) \/ CreateRun(w) \/ PollTimeout(w) \/ PollRetrieve(w)
       \/ Release(w) \/ SendAssistantReply(w) \/ RunProgress(w)
  \/ TimePasses

SpecAssistant == InitAssistant /\ [][NextAssistant]_vars

LockedSteps == {"thread", "message", "run", "tool"}

\* C10: a worker whose lock acquisition timed out has looked up no thread,
\* added no message, created no run and executed no tool in that turn.
C10_FailClosed ==
  \A w \in Workers :
    lockFailed[w] => /\ did[w] \cap LockedSteps = {}
                     /\ runStatus[w] = "none"
                     /\ wPc[w] = "raised"

C10_Witness ==
  \E w \in Workers : \E v \in Workers :
    /\ lockFailed[w] /\ wPc[w] = "raised" /\ did[w] = {}
    /\ v # w /\ wPc[v] = "done" /\ did[v] = LockedSteps

\* C9: no worker requests a message or a run on the thread while a run that
\* another worker created is queued, in_progress or requires_action.
C9_NoOverlap == ~conflict

\* C32: process_message terminates once the lock is held by returning a
\* value (the assistant text, the failure apology or the timeout apology):
\* a worker that acquired the lock and came to the end of its turn left
\* process_message through a return, whatever the run did on each poll.
C32_LockHolderReturns ==
  \A w \in Workers :
    (wPc[w] \in {"done", "raised"} /\ ~lockFailed[w]) => wPc[w] = "done"

\* C2: every turn that entered process_new_message and came to its end has
\* called send_reply_to_channel exactly once.
C2_ExactlyOneReply ==
  \A w \in Workers : wPc[w] \in {"done", "raised"} => wReplies[w] = 1

\* ------------------------------------------------------------------------
\* thread_mapping_service and _get_or_create_thread_id: workers take turns
\* of several conversations; store_thread_id is also called on its own. The
\* table conversation_thread_map is a set of rows <<conversation, thread>>.
\* ------------------------------------------------------------------------
NConvs == 2
Convs == 1..NConvs
MaxThreads == 3
ThreadIds == 1..MaxThreads

\* session.query(...).filter(sb_conversation_id == c).first(); 0 is None
StoredThread(rows, c) ==
  IF \E r \in rows : r[1] = c THEN (CHOOSE r \in rows : r[1] = c)[2] ELSE 0

\* store_thread_id, lines 54-70
StoreRows_overwrite(rows, c, t) == {r \in rows : r[1] # c} \cup {<<c, t>>}
StoreRows(rows, c, t) ==
  IF StoredThread(rows, c) # 0 THEN rows ELSE rows \cup {<<c, t>>}

FirstStored(first, rows, c, t) ==
  IF first[c] = 0 /\ StoredThread(rows, c) # 0 THEN [first EXCEPT ![c] = StoredThread(rows, c)]
  ELSE first

InitThreads ==
  /\ ChatIdle /\ DispIdle /\ HookIdle /\ DedupIdle /\ AsstIdle /\ CtxIdle /\ SrchIdle /\ GrpIdle /\ DetIdle /\ NameIdle /\ BranchIdle /\ IdemIdle
  /\ threadMap = {} /\ threadsMade = 0
  /\ tPc = [w \in Workers |-> "idle"]
  /\ tConv = [w \in Workers |-> 1]
  /\ tThread = [w \in Workers |-> 0]
  /\ tSaw = [w \in Workers |-> FALSE]
  /\ firstStored = [c \in Convs |-> 0]

\* line 42: a turn of conversation c reaches _get_or_create_thread_id and
\* calls thread_mapping_service.get_thread_id
GetThreadId(w) ==
  /\ tPc[w] = "idle"
  /\ \E c \in Convs :
       /\ tConv' = [tConv EXCEPT ![w] = c]
       /\ tThread' = [tThread EXCEPT ![w] = StoredThread(threadMap, c)]
       /\ tSaw' = [tSaw EXCEPT ![w] = StoredThread(threadMap, c) # 0]
       /\ tPc' = [tPc EXCEPT ![w] =
            IF StoredThread(threadMap, c) # 0 THEN "use" ELSE "create"]
  /\ UNCHANGED <<threadMap, threadsMade, firstStored, notThr>>

\* lines 45-46: client.beta.threads.create()
CreateThread(w) ==
  /\ tPc[w] = "create"
  /\ threadsMade < MaxThreads
  /\ threadsMade' = threadsMade + 1
  /\ tThread' = [tThread EXCEPT ![w] = threadsMade + 1]
  /\ tPc' = [tPc EXCEPT ![w] = "store"]
  /\ UNCHANGED <<threadMap, tConv, tSaw, firstStored, notThr>>

\* line 47: store_thread_id(sb_conversation_id, thread_id)
StoreThreadId(w) ==
  /\ tPc[w] = "store"
  /\ threadMap' = StoreRows(threadMap, tConv[w], tThread[w])
  /\ firstStored' = FirstStored(firstStored, threadMap', tConv[w], tThread[w])
  /\ tPc' = [tPc EXCEPT ![w] = "use"]
  /\ UNCHANGED <<threadsMade, tConv, tThread, tSaw, notThr>>

\* line 48 and process_message 116-147: the turn works on thread_id
UseThread(w) ==
  /\ tPc[w] = "use"
  /\ tPc' = [tPc EXCEPT ![w] = "idle"]
  /\ tConv' = [tConv EXCEPT ![w] = 1]
  /\ tThread' = [tThread EXCEPT ![w] = 0]
  /\ tSaw' = [tSaw EXCEPT ![w] = FALSE]
  /\ UNCHANGED <<threadMap, threadsMade, firstStored, notThr>>

\* store_thread_id called on its own with the thread created last
DirectStore ==
  /\ threadsMade > 0
  /\ \E c \in Convs :
       /\ threadMap' = StoreRows(threadMap, c, threadsMade)
       /\ firstStored' = FirstStored(firstStored, threadMap', c, threadsMade)
  /\ UNCHANGED <<threadsMade, tPc, tConv, tThread, tSaw, notThr>>

NextThreads ==
  \/ \E w \in Workers :
       \/ GetThreadId(w) \/ CreateThread(w)
       \/ StoreThreadId(w) \/ UseThread(w)
  \/ DirectStore

SpecThreads == InitThreads /\ [][NextThreads]_vars

MaxSbHistory == 4           \* messages in the Support Board conversation
MAX_HISTORY_MESSAGES == 3   \* Config.MAX_HISTORY_MESSAGES, scaled (default 16)

Turn(role, content, calls, id, name, src) ==
  [role |-> role, content |-> content, tool_calls |-> calls,
   tool_call_id |-> id, name |-> name, src |-> src]

user_location_tool_call == "user_location_tool_call"
LocationCall == [id |-> user_location_tool_call, name |-> "get_location_details_from_user"]

\* Shapes of a Support Board message: a customer's text, the bot's text, a
\* message whose text is empty (a persisted tool result is one: its payload
\* is read only under role == 'tool', which line 322 never assigns), and
\* the bot's message with a tool_calls payload.
SbShapes == {"user_text", "bot_text", "blank", "bot_tool_calls"}

\* _format_sb_history_for_openai, lines 321-338, for one message
FormatOne(shape, i) ==
  CASE shape = "bot_tool_calls" ->
         <<Turn("assistant", NoneVal, <<LocationCall>>, "", "", i)>>
    [] shape = "bot_text" -> <<Turn("assistant", "text", <<>>, "", "", i)>>
    [] shape = "user_text" -> <<Turn("user", "text", <<>>, "", "", i)>>
    [] OTHER -> <<>>

RECURSIVE FormatFrom(_, _)
FormatFrom(sb, i) ==
  IF i > Len(sb) THEN <<>> ELSE FormatOne(sb[i], i) \o FormatFrom(sb, i + 1)

format_sb_history_for_openai(sb) == FormatFrom(sb, 1)

SystemTurn == Turn("system", "system_prompt_content", <<>>, "", "", 0)
UserTurn == Turn("user", "new_user_message", <<>>, "", "", 0)
VirtualCallTurn == Turn("assistant", NoneVal, <<LocationCall>>, "", "", 0)
VirtualResultTurn ==
  Turn("tool", "geo_details", <<>>, user_location_tool_call,
       "get_location_details_from_user", 0)

\* lines 177-201: the turns the geolocation step appends
GeoInjection_always(msg, err) ==
  IF msg = "pin" THEN <<UserTurn, VirtualCallTurn, VirtualResultTurn>> ELSE <<>>
GeoInjection(msg, err) ==
  IF msg = "pin" /\ ~err
  THEN <<UserTurn, VirtualCallTurn, VirtualResultTurn>>
  ELSE <<>>

\* Python s[start:] for any integer start
PySliceFrom(s, start) ==
  LET n == Len(s)
      b == IF start < 0 THEN (IF n + start < 0 THEN 0 ELSE n + start)
           ELSE IF start > n THEN n ELSE start
  IN  SubSeq(s, b + 1, n)

\* lines 216-217
Truncate_head(msgs) ==
  IF Len(msgs) > MAX_HISTORY_MESSAGES + 1
  THEN SubSeq(msgs, 1, MAX_HISTORY_MESSAGES + 1)
  ELSE msgs
Truncate_last_only(msgs) ==
  IF Len(msgs) > MAX_HISTORY_MESSAGES + 1
  THEN <<msgs[1]>> \o PySliceFrom(msgs, 0 - 1)
  ELSE msgs
Truncate(msgs) ==
  IF Len(msgs) > MAX_HISTORY_MESSAGES + 1
  THEN <<msgs[1]>> \o PySliceFrom(msgs, 0 - MAX_HISTORY_MESSAGES)
  ELSE msgs

CallIdNames ==
  <<"call_1", "call_2", "call_3", "call_4", "call_5", "call_6", "call_7",
    "call_8", "call_9", "call_10", "call_11", "call_12", "call_13",
    "call_14", "call_15", "call_16">>

\* the k tool calls of the model turn of round r (ids are the backend's,
\* distinct; odd calls name a known tool, even calls an unknown one)
CtxCalls(r, k) ==
  [j \in 1..k |->
     [id |-> CallIdNames[r * (MaxCalls + 1) + j],
      name |-> IF j % 2 = 1 THEN "find_products" ELSE "no_such_tool",
      args |-> "valid", outcome |-> "success"]]

CallRefs(calls) == [j \in 1..Len(calls) |-> [id |-> calls[j].id, name |-> calls[j].name]]

\* response_message.model_dump(exclude_none=True), line 229
RawModelTurn(calls) ==
  IF calls = <<>> THEN Turn("assistant", ModelText, <<>>, "", "", 0)
  ELSE Turn("assistant", NoneVal, CallRefs(calls), "", "", 0)

\* line 299: one entry of tool_outputs_for_llm
ToolTurn(r) == Turn("tool", r.status, <<>>, r.tool_call_id, r.name, 0)

ToolTurns_reversed(outs) == [j \in 1..Len(outs) |-> ToolTurn(outs[Len(outs) + 1 - j])]
ToolTurns(outs) == [j \in 1..Len(outs) |-> ToolTurn(outs[j])]

RECURSIVE SeqsUpTo(_, _)
SeqsUpTo(S, n) ==
  IF n = 0 THEN {<<>>}
  ELSE LET shorter == SeqsUpTo(S, n - 1)
       IN  shorter \cup {Append(q, x) : q \in {t \in shorter : Len(t) = n - 1}, x \in S}

InitContext ==
  /\ ChatIdle /\ DispIdle /\ HookIdle /\ DedupIdle /\ AsstIdle /\ ThrIdle /\ SrchIdle /\ GrpIdle /\ DetIdle /\ NameIdle /\ BranchIdle /\ IdemIdle
  /\ sb_history_list \in SeqsUpTo(SbShapes, MaxSbHistory)
  /\ new_user_message \in {"none", "text", "pin"}
  /\ geoError \in BOOLEAN
  /\ (new_user_message # "pin" => ~geoError)
  /\ openai_history = <<>> /\ messages = <<>> /\ ctxPc = "start" /\ ctxCount = 0
  /\ firstContext = <<>> /\ roundLog = <<>> /\ sbAdded = 0 /\ ctxResponse = ""

\* lines 173-217: history, geolocation step, empty checks, system turn,
\* truncation
BuildContext ==
  /\ ctxPc = "start"
  /\ LET formatted == format_sb_history_for_openai(sb_history_list)
         injected == GeoInjection(new_user_message, geoError)
         withGeo == formatted \o injected
         hist == IF withGeo = <<>> /\ new_user_message # "none"
                 THEN <<UserTurn>> ELSE withGeo
     IN  /\ sbAdded' = IF injected # <<>> THEN 2 ELSE 0
         /\ openai_history' = hist
         /\ IF hist = <<>>
            THEN /\ ctxPc' = "returned" /\ ctxResponse' = NoneVal
                 /\ messages' = <<>>
            ELSE /\ ctxPc' = "model_call" /\ ctxResponse' = ""
                 /\ messages' = Truncate(<<SystemTurn>> \o hist)
  /\ UNCHANGED <<sb_history_list, new_user_message, geoError, ctxCount,
                 firstContext, roundLog, notCtx>>

\* lines 227-233: the model call returns a turn with k tool calls
CtxModelCall ==
  /\ ctxPc = "model_call"
  /\ firstContext' = IF firstContext = <<>> THEN messages ELSE firstContext
  /\ \E k \in 0..MaxCalls :
       LET calls == CtxCalls(ctxCount, k)
       IN  /\ messages' = Append(messages, RawModelTurn(calls))
           /\ IF k = 0
              THEN /\ ctxPc' = "returned" /\ ctxResponse' = ModelText
                   /\ UNCHANGED roundLog
              ELSE /\ ctxPc' = "exec_tools" /\ UNCHANGED ctxResponse
                   /\ roundLog' = Append(roundLog, [at |-> Len(messages) + 1, calls |-> calls])
  /\ UNCHANGED <<sb_history_list, new_user_message, geoError, openai_history,
                 ctxCount, sbAdded, notCtx>>

\* lines 227, 242-244: the model call raises
CtxModelCallFails ==
  /\ ctxPc = "model_call"
  /\ firstContext' = IF firstContext = <<>> THEN messages ELSE firstContext
  /\ ctxPc' = "returned" /\ ctxResponse' = ChatApology
  /\ UNCHANGED <<sb_history_list, new_user_message, geoError, openai_history,
                 messages, ctxCount, roundLog, sbAdded, notCtx>>

\* lines 235-240: the calls are executed and their results appended
CtxExecuteRound ==
  /\ ctxPc = "exec_tools"
  /\ LET calls == roundLog[Len(roundLog)].calls
     IN  messages' = messages \o ToolTurns(execute_tool_calls("openai_chat", calls))
  /\ ctxCount' = ctxCount + 1
  /\ IF ctxCount' <= tool_call_retry_limit
     THEN ctxPc' = "model_call" /\ UNCHANGED ctxResponse
     ELSE ctxPc' = "returned" /\ ctxResponse' = NoneVal
  /\ UNCHANGED <<sb_history_list, new_user_message, geoError, openai_history,
                 firstContext, roundLog, sbAdded, notCtx>>

NextContext == BuildContext \/ CtxModelCall \/ CtxModelCallFails \/ CtxExecuteRound

SpecContext == InitContext /\ [][NextContext]_vars

\* the assistant turns before turn i that carry the tool call answered by i
CallTurnsBefore(msgs, i) ==
  {j \in 1..(i - 1) :
     /\ msgs[j].role = "assistant"
     /\ \E c \in 1..Len(msgs[j].tool_calls) :
          msgs[j].tool_calls[c].id = msgs[i].tool_call_id}

C12_TruncationKeepsSystemAndTail ==
  firstContext # <<>> =>
    /\ firstContext[1] = SystemTurn
    /\ \A i \in 2..Len(firstContext) : firstContext[i].role # "system"
    /\ Len(openai_history) + 1 > MAX_HISTORY_MESSAGES + 1 =>
         /\ Len(firstContext) = MAX_HISTORY_MESSAGES + 1
         /\ \A j \in 1..MAX_HISTORY_MESSAGES :
              firstContext[j + 1] =
                openai_history[Len(openai_history) - MAX_HISTORY_MESSAGES + j]

C12_Witness ==
  /\ firstContext # <<>>
  /\ Len(openai_history) > MAX_HISTORY_MESSAGES + 1
  /\ firstContext[2] = openai_history[Len(openai_history) - MAX_HISTORY_MESSAGES + 1]
  /\ firstContext[2] # openai_history[1]

\* C13: whenever the loop is not in the middle of executing a round, every
\* executed round with k calls has left in the context its raw model turn
\* followed by exactly k tool-result turns, in call order, the j-th with the
\* tool_call_id of the j-th call; nothing else lies between them, and the
\* next model call is issued only from such a state.
C13_RoundAppendsModelTurnThenResults ==
  \A n \in 1..Len(roundLog) :
    (n < Len(roundLog) \/ ctxPc # "exec_tools") =>
      LET at == roundLog[n].at
          calls == roundLog[n].calls
          k == Len(calls)
      IN  /\ Len(messages) >= at + k
          /\ messages[at] = RawModelTurn(calls)
          /\ \A j \in 1..k :
               /\ messages[at + j].role = "tool"
               /\ messages[at + j].tool_call_id = calls[j].id
          /\ (Len(messages) > at + k => messages[at + k + 1].role = "assistant")

C13_Witness ==
  /\ ctxPc = "model_call"
  /\ Len(roundLog) = 2
  /\ Len(roundLog[1].calls) = MaxCalls
  /\ Len(roundLog[2].calls) = 1
  /\ messages[Len(messages)].tool_call_id = roundLog[2].calls[1].id

MaxRows == 2                \* rows in the products table

MonitoredGroup == "DAMASCO TECNO"
Warehouses == {"CCCT", "VALENCIA"}
ItemCodes == {"SKU1", "SKU2"}

Rows ==
  [item_code : ItemCodes, stock : {0, 1}, item_group_name : {MonitoredGroup, "OTRO"},
   warehouse_name : Warehouses, similar : BOOLEAN]

\* columns that follow from the item in this table
SubCategory(r) == IF r.item_code = "SKU1" THEN "CELULAR" ELSE "TABLET"
Brand(r) == "SAMSUNG"
SpecText(r) == IF r.item_code = "SKU1" THEN "128gb" ELSE "64gb"

\* str.lower() / func.lower() on the words of the model
Lower(w) ==
  CASE w = "SKU1" -> "sku1" [] w = "SKU2" -> "sku2" [] w = "SAMSUNG" -> "samsung"
    [] w = "Caracas" -> "caracas" [] w = "Atlantis" -> "atlantis" [] OTHER -> w

QueryWords == {"SKU1", "sku1", "128gb", "celular", "samsung"}
Queries == SUBSET QueryWords
CityArgs == {"", "Caracas", "Atlantis"}

\* conversation_location: detect_city_from_text, set_conversation_city,
\* get_city_warehouses over a map with one served city
detect_city_from_text(text) == IF Lower(text) = "caracas" THEN "caracas" ELSE ""
ResolvedCity(city) ==
  IF detect_city_from_text(city) # "" THEN detect_city_from_text(city) ELSE Lower(city)
warehouse_map(city) == IF city = "caracas" THEN {"CCCT"} ELSE {}
get_city_warehouses(stored) ==
  IF stored = "" THEN {}
  ELSE warehouse_map(IF detect_city_from_text(stored) # "" THEN detect_city_from_text(stored)
                     ELSE stored)

\* line 174 / 197: not warehouse_names or warehouse_name in warehouse_names
InScope(r, scope) == scope = {} \/ r.warehouse_name \in scope

Filtered(cat, scope) ==
  {r \in cat : r.stock > 0 /\ r.item_group_name = MonitoredGroup /\ InScope(r, scope)}

\* get_live_product_details_by_sku, lines 244-253
get_live_product_details_by_sku_exact(cat, q) ==
  {r \in cat : \E w \in q : q = {w} /\ r.item_code = w}
get_live_product_details_by_sku(cat, q) ==
  {r \in cat : \E w \in q : q = {w} /\ Lower(r.item_code) = Lower(w)}

\* lines 185-187 with _detect_sub_category
spec_match(q) == "128gb" \in q
detect_sub_category(q) == IF "celular" \in q THEN "CELULAR" ELSE NoneVal
SpecApplies_token_only(q) == spec_match(q)
SpecApplies(q) == spec_match(q) /\ detect_sub_category(q) # NoneVal

\* lines 207-208: get_available_brands_by_category() and the matched brand
all_brands(cat) ==
  {Brand(r) : r \in {x \in cat : SubCategory(x) = "CELULAR"
                                  /\ x.item_group_name = MonitoredGroup /\ x.stock > 0}}
matched_brand(cat, q) ==
  IF \E b \in all_brands(cat) : Lower(b) \in q
  THEN CHOOSE b \in all_brands(cat) : Lower(b) \in q ELSE NoneVal

\* the rows each stage obtains for the scope
StageRows(stage, cat, q, scope, emb) ==
  CASE stage = "sku_match" ->
         {r \in get_live_product_details_by_sku(cat, q) : InScope(r, scope)}
    [] stage = "spec_filter" ->
         {r \in Filtered(cat, scope) :
            SubCategory(r) = detect_sub_category(q) /\ SpecText(r) \in q}
    [] stage = "brand_match" ->
         IF matched_brand(cat, q) = NoneVal THEN {}
         ELSE {r \in Filtered(cat, scope) : Brand(r) = matched_brand(cat, q)}
    [] OTHER ->
         IF emb THEN {r \in Filtered(cat, scope) : r.similar} ELSE {}

\* lines 175-181: what the SKU stage does with sku_results
SkuOutcome_fallthrough(sku_results, available, scope) ==
  IF available # {} THEN "success" ELSE "continue"
SkuOutcome(sku_results, available, scope) ==
  IF sku_results = {} THEN "continue"
  ELSE IF available # {} THEN "success"
  ELSE IF scope # {} THEN "not_found_in_city"
  ELSE "continue"

\* the order of the steps of find_products
StageOrder_brand_first == <<"sku_match", "brand_match", "spec_filter", "vector_search">>
StageOrder == <<"sku_match", "spec_filter", "brand_match", "vector_search">>

\* lines 227-228: get_embedding for a query whose embedding cannot be
\* computed returns None ("skip") rather than raising ("raise")
OnEmbeddingFailure == "skip"

SearchResult(status, method, rows, log, raised) ==
  [status |-> status, search_method |-> method, rows |-> rows,
   queried |-> log, raised |-> raised]

NoResult == SearchResult("", "", {}, <<>>, FALSE)

\* lines 240-242: all methods failed
AllFailed_none(log) == SearchResult(NoneVal, "", {}, log, FALSE)
AllFailed(log) == SearchResult("not_found", "", {}, log, FALSE)

RECURSIVE RunStages(_, _, _, _, _, _)
RunStages(i, cat, q, scope, emb, log) ==
  IF i > Len(StageOrder)
  THEN AllFailed(log)
  ELSE LET stage == StageOrder[i]
           rows == StageRows(stage, cat, q, scope, emb)
           entered == Append(log, stage)
       IN  IF stage = "spec_filter" /\ ~SpecApplies(q)
           THEN RunStages(i + 1, cat, q, scope, emb, log)
           ELSE IF stage = "vector_search" /\ ~emb /\ OnEmbeddingFailure = "raise"
           THEN SearchResult("", "", {}, entered, TRUE)
           ELSE IF stage = "sku_match"
           THEN LET o == SkuOutcome(get_live_product_details_by_sku(cat, q), rows, scope)
                IN  IF o = "success"
                    THEN SearchResult("success", stage, rows, entered, FALSE)
                    ELSE IF o = "not_found_in_city"
                    THEN SearchResult("not_found_in_city", "", {}, entered, FALSE)
                    ELSE RunStages(i + 1, cat, q, scope, emb, entered)
           ELSE IF rows # {}
           THEN SearchResult("success", stage, rows, entered, FALSE)
           ELSE RunStages(i + 1, cat, q, scope, emb, entered)

\* find_products, lines 160-242
find_products(cat, q, scope, emb) ==
  IF q = {} THEN SearchResult("error", "", {}, <<>>, FALSE)
  ELSE RunStages(1, cat, q, scope, emb, <<>>)

\* lines 267-270: the output of a scoped search
ScopedOutput_raw(res, city) == res
ScopedOutput(res, city) ==
  IF res.rows = {} THEN SearchResult("not_found_in_city", "", {}, <<>>, FALSE) ELSE res

RECURSIVE SetsUpTo(_, _)
SetsUpTo(S, n) ==
  IF n = 0 THEN {{}}
  ELSE LET smaller == SetsUpTo(S, n - 1)
       IN  smaller \cup {c \cup {x} : c \in smaller, x \in S}

InitSearch ==
  /\ ChatIdle /\ DispIdle /\ HookIdle /\ DedupIdle /\ AsstIdle /\ ThrIdle /\ CtxIdle /\ GrpIdle /\ DetIdle /\ NameIdle /\ BranchIdle /\ IdemIdle
  /\ catalog \in SetsUpTo(Rows, MaxRows)
  /\ conversation_city = ""
  /\ fpQuery \in Queries /\ fpCity \in CityArgs /\ fpEmbedOk \in BOOLEAN
  /\ fpScope = {} /\ fpResult = NoResult /\ fpOutput = NoResult
  /\ fpCalled = FALSE /\ fpPc = "resolve"

\* lines 259-264: the city argument is stored and resolved to warehouses
ResolveCity ==
  /\ fpPc = "resolve"
  /\ IF fpCity # ""
     THEN /\ conversation_city' = ResolvedCity(fpCity)
          /\ fpScope' = get_city_warehouses(conversation_city')
          /\ IF fpScope' = {}
             THEN /\ fpOutput' = SearchResult("city_not_served", "", {}, <<>>, FALSE)
                  /\ fpPc' = "done"
             ELSE /\ fpPc' = "search" /\ UNCHANGED fpOutput
     ELSE /\ fpPc' = "search"
          /\ UNCHANGED <<conversation_city, fpScope, fpOutput>>
  /\ UNCHANGED <<catalog, fpQuery, fpCity, fpEmbedOk, fpResult, fpCalled, notSrch>>

\* lines 266-273 and 295-297: the search and the output made of its result
SearchCatalog ==
  /\ fpPc = "search"
  /\ fpCalled' = TRUE
  /\ fpResult' = find_products(catalog, fpQuery, fpScope, fpEmbedOk)
  /\ fpOutput' = IF fpResult'.raised
                 THEN SearchResult("error", "", {}, <<>>, FALSE)
                 ELSE IF fpCity # "" THEN ScopedOutput(fpResult', fpCity)
                 ELSE fpResult'
  /\ fpPc' = "done"
  /\ UNCHANGED <<catalog, conversation_city, fpQuery, fpCity, fpEmbedOk, fpScope, notSrch>>

NextSearch == ResolveCity \/ SearchCatalog

SpecSearch == InitSearch /\ [][NextSearch]_vars

\* C15: a find_products call with a city that resolves to no warehouses ends
\* with city_not_served and no catalog search; with a city that resolves to
\* warehouses it ends with not_found_in_city when the scoped search has no
\* products and with the scoped search result otherwise; without a city it
\* ends with the result of the unscoped search.
C15_CityScopedDispatch ==
  fpPc = "done" =>
    IF fpCity = ""
    THEN fpCalled /\ fpScope = {} /\ fpOutput = fpResult
    ELSE IF get_city_warehouses(ResolvedCity(fpCity)) = {}
    THEN fpOutput.status = "city_not_served" /\ ~fpCalled /\ fpResult = NoResult
    ELSE /\ fpCalled /\ fpScope = get_city_warehouses(ResolvedCity(fpCity))
         /\ IF fpResult.rows = {}
            THEN fpOutput.status = "not_found_in_city"
            ELSE fpOutput = fpResult /\ fpOutput.status = "success"

C15_Witness ==
  /\ fpPc = "done" /\ fpCity = "Caracas"
  /\ fpResult.status = "not_found" /\ fpOutput.status = "not_found_in_city"
  /\ \E r \in catalog : r.stock > 0 /\ r.warehouse_name = "VALENCIA"

\* C31: the SKU stage is case-insensitive: a query that differs from the
\* query of the call only in letter case matches the same rows of the
\* catalog in the SKU stage, and a call answered by the SKU stage carries
\* exactly those rows.
SameButCase(q1, q2) == {Lower(w) : w \in q1} = {Lower(w) : w \in q2} /\ Cardinality(q1) = Cardinality(q2)

C31_SkuStageIgnoresCase ==
  (fpPc = "done" /\ fpCalled) =>
    \A q2 \in Queries :
      SameButCase(fpQuery, q2) =>
        /\ StageRows("sku_match", catalog, q2, fpScope, fpEmbedOk)
             = StageRows("sku_match", catalog, fpQuery, fpScope, fpEmbedOk)
        /\ fpResult.search_method = "sku_match"
             => fpResult.rows = StageRows("sku_match", catalog, q2, fpScope, fpEmbedOk)

C31_Witness ==
  /\ fpPc = "done" /\ fpQuery = {"sku1"}
  /\ fpResult.search_method = "sku_match"
  /\ \E r \in fpResult.rows : r.item_code = "SKU1"

\* C28: an invalid input or an internal fault of find_products (here the
\* empty query, or a stage that raised) gives a tool output of status error,
\* never not_found_in_city or not_found, with or without a city argument.
C28_FaultIsError ==
  (fpPc = "done" /\ fpCalled /\ (fpQuery = {} \/ fpResult.raised))
    => /\ fpOutput.status = "error"
       /\ fpOutput.status \notin {"not_found_in_city", "not_found"}

\* the same without a city argument
C28_FaultIsErrorUnscoped ==
  (fpPc = "done" /\ fpCalled /\ fpCity = "" /\ (fpQuery = {} \/ fpResult.raised))
    => fpOutput.status = "error"

\* C16: a scoped find_products whose query matches rows as item_code, none
\* of them in a warehouse of the scope, returns not_found_in_city and has
\* entered no stage but the SKU stage.
C16_SkuOutsideScope ==
  (/\ fpCalled /\ fpScope # {}
   /\ get_live_product_details_by_sku(catalog, fpQuery) # {}
   /\ \A r \in get_live_product_details_by_sku(catalog, fpQuery) :
        r.warehouse_name \notin fpScope)
    => /\ fpResult.status = "not_found_in_city"
       /\ fpResult.queried = <<"sku_match">>

C16_Witness ==
  /\ fpCalled /\ fpScope = {"CCCT"} /\ fpQuery = {"SKU1"} /\ fpEmbedOk
  /\ fpResult.status = "not_found_in_city"
  /\ \E r \in catalog : r.item_code = "SKU1" /\ r.warehouse_name = "VALENCIA"
  /\ \E r \in catalog : r.item_code = "SKU2" /\ r.warehouse_name = "CCCT"
                        /\ r.stock > 0 /\ r.similar /\ r.item_group_name = MonitoredGroup

StageRank(stage) ==
  CASE stage = "sku_match" -> 1 [] stage = "spec_filter" -> 2
    [] stage = "brand_match" -> 3 [] OTHER -> 4

\* C17: the stages a find_products call enters follow the order SKU, spec,
\* brand, vector, starting with SKU; a result that names a search_method
\* names the stage entered last, that stage obtained rows for the scope and
\* every stage entered before it obtained none.
C17_StagesInOrderFirstHitWins ==
  (fpCalled /\ fpQuery # {}) =>
    LET log == fpResult.queried
    IN  /\ Len(log) >= 1 /\ log[1] = "sku_match"
        /\ \A i \in 1..Len(log) : \A j \in 1..Len(log) :
             i < j => StageRank(log[i]) < StageRank(log[j])
        /\ fpResult.search_method # "" =>
             /\ fpResult.search_method = log[Len(log)]
             /\ fpResult.rows # {}
             /\ fpResult.rows = StageRows(log[Len(log)], catalog, fpQuery, fpScope, fpEmbedOk)
             /\ \A i \in 1..(Len(log) - 1) :
                  StageRows(log[i], catalog, fpQuery, fpScope, fpEmbedOk) = {}
        /\ \A i \in 1..(Len(log) - 1) :
             StageRows(log[i], catalog, fpQuery, fpScope, fpEmbedOk) = {}

C17_Witness ==
  /\ fpCalled /\ fpResult.search_method = "brand_match"
  /\ fpResult.queried = <<"sku_match", "spec_filter", "brand_match">>
  /\ \E r \in fpResult.rows : r.similar

\* C18: every row of a successful find_products result has stock > 0, is of
\* the monitored group and, with a scope, lies in a warehouse of the scope.
C18_ContributingRowsFiltered ==
  (fpCalled /\ fpResult.status = "success") =>
    \A r \in fpResult.rows :
      /\ r.stock > 0
      /\ r.item_group_name = MonitoredGroup
      /\ (fpScope # {} => r.warehouse_name \in fpScope)

\* C19: find_products enters the spec stage only for a query with both a
\* quantity+unit token and a category keyword; a query with the token and no
\* category keyword that the SKU stage did not answer goes from the SKU
\* stage to the brand stage and, when that has no rows, to the vector stage.
C19_SpecStageNeedsBothSignals ==
  (fpCalled /\ fpQuery # {}) =>
    LET log == fpResult.queried
    IN  /\ (\E i \in 1..Len(log) : log[i] = "spec_filter") =>
             ("128gb" \in fpQuery /\ "celular" \in fpQuery)
        /\ ("128gb" \in fpQuery /\ "celular" \notin fpQuery /\ Len(log) > 1) =>
             /\ log[2] = "brand_match"
             /\ (fpResult.search_method # "brand_match" =>
                   log = <<"sku_match", "brand_match", "vector_search">>)

C19_Witness ==
  /\ fpCalled /\ "128gb" \in fpQuery /\ "celular" \notin fpQuery
  /\ fpResult.queried = <<"sku_match", "brand_match", "vector_search">>
  /\ fpResult.search_method = "vector_search"
  /\ \E r \in fpResult.rows : r.item_code = "SKU1"

MaxGroupRows == 3           \* rows handed to _group_product_results

KNOWN_COLORS == {"negro", "azul"}
WordLower(w) == CASE w = "Negro" -> "negro" [] w = "Azul" -> "azul" [] OTHER -> w

\* _SKU_PAT: a word that is a model number or a code of 8 or more characters
IsSkuWord(w) == w \in {"SM-A155F"}

ItemNames == {<<"GALAXY", "SM-A155F", "Negro">>, <<"GALAXY", "Azul">>, <<"Negro", "Azul">>}
ItemCodeOf(name) ==
  CASE name = <<"GALAXY", "SM-A155F", "Negro">> -> "C1"
    [] name = <<"GALAXY", "Azul">> -> "C2" [] OTHER -> "C3"

GroupRows == [item_name : ItemNames, branch_name : {"CCCT", "SAMBIL", ""}, stock : {1, 2}]

\* line 43: _SKU_PAT.sub('', item_name).strip() and line 44: split()
WithoutSku(name) == SelectSeq(name, LAMBDA w : ~IsSkuWord(w))

\* lines 45-52: the trailing run of colour words is the colour
RECURSIVE ColorStart(_, _)
ColorStart(words, i) ==
  IF i >= 1 /\ WordLower(words[i]) \in KNOWN_COLORS THEN ColorStart(words, i - 1) ELSE i + 1

\* lines 53-55: (base or name_without_sku, colour or None)
BaseName(name) ==
  LET words == WithoutSku(name)
      base == SubSeq(words, 1, ColorStart(words, Len(words)) - 1)
  IN  IF base = <<>> THEN words ELSE base

ColorOf(name) ==
  LET words == WithoutSku(name)
      color == SubSeq(words, ColorStart(words, Len(words)), Len(words))
  IN  IF color = <<>> THEN <<"N/A">> ELSE color

\* lines 81-85
Variant(r) ==
  [color |-> ColorOf(r.item_name), full_item_name |-> r.item_name,
   item_code |-> ItemCodeOf(r.item_name)]

InSeq(x, q) == \E i \in 1..Len(q) : q[i] = x

\* lines 86-87
AddVariant_first_only(variants, v) == IF variants = <<>> THEN <<v>> ELSE variants
AddVariant(variants, v) == IF InSeq(v, variants) THEN variants ELSE Append(variants, v)

\* lines 72-92: one row added to the groups (a sequence in insertion order,
\* as the dict is)
GroupIndex(groups, base) ==
  IF \E i \in 1..Len(groups) : groups[i].base_name = base
  THEN CHOOSE i \in 1..Len(groups) : groups[i].base_name = base ELSE 0

AddRow(groups, r) ==
  LET base == BaseName(r.item_name)
      withGroup == IF GroupIndex(groups, base) = 0
                   THEN Append(groups, [base_name |-> base, variants |-> <<>>, locations |-> <<>>])
                   ELSE groups
      i == GroupIndex(withGroup, base)
  IN  [withGroup EXCEPT
         ![i].variants = AddVariant(@, Variant(r)),
         ![i].locations = Append(@, [branch_name |-> r.branch_name, stock |-> r.stock])]

RECURSIVE AddRows(_, _, _)
AddRows(groups, rows, i) ==
  IF i > Len(rows) THEN groups ELSE AddRows(AddRow(groups, rows[i]), rows, i + 1)

\* lines 97-101: one location merged into merged_locations
MergeLocation_overwrite(merged, loc) ==
  IF loc.branch_name = "" THEN merged
  ELSE IF \E i \in 1..Len(merged) : merged[i].branch_name = loc.branch_name
  THEN [i \in 1..Len(merged) |->
          IF merged[i].branch_name = loc.branch_name
          THEN [merged[i] EXCEPT !.total_stock = loc.stock] ELSE merged[i]]
  ELSE Append(merged, [branch_name |-> loc.branch_name, total_stock |-> loc.stock])
MergeLocation(merged, loc) ==
  IF loc.branch_name = "" THEN merged
  ELSE IF \E i \in 1..Len(merged) : merged[i].branch_name = loc.branch_name
  THEN [i \in 1..Len(merged) |->
          IF merged[i].branch_name = loc.branch_name
          THEN [merged[i] EXCEPT !.total_stock = @ + loc.stock] ELSE merged[i]]
  ELSE Append(merged, [branch_name |-> loc.branch_name, total_stock |-> loc.stock])

RECURSIVE MergeLocations(_, _, _)
MergeLocations(merged, locs, i) ==
  IF i > Len(locs) THEN merged
  ELSE MergeLocations(MergeLocation(merged, locs[i]), locs, i + 1)

\* _group_product_results, lines 65-104: products_grouped
group_product_results(rows) ==
  LET grouped == AddRows(<<>>, rows, 1)
  IN  [i \in 1..Len(grouped) |->
         [grouped[i] EXCEPT !.locations = MergeLocations(<<>>, @, 1)]]

SeqSet(q) == {q[i] : i \in 1..Len(q)}

\* what a result says regardless of order
GroupSummary(out) ==
  {[base_name |-> g.base_name, variants |-> SeqSet(g.variants),
    totals |-> SeqSet(g.locations)] : g \in SeqSet(out)}

InitGroup ==
  /\ ChatIdle /\ DispIdle /\ HookIdle /\ DedupIdle /\ AsstIdle /\ ThrIdle /\ CtxIdle /\ DetIdle /\ NameIdle /\ BranchIdle /\ IdemIdle
  /\ SrchIdle
  /\ gList \in SeqsUpTo(GroupRows, MaxGroupRows)
  /\ gOut = <<>> /\ gFirst = {} /\ gPc = "fresh"

\* a call of _group_product_results on the list as it stands
GroupTheRows ==
  /\ gPc \in {"fresh", "stale"}
  /\ gOut' = group_product_results(gList)
  /\ gFirst' = IF gPc = "fresh" THEN GroupSummary(gOut') ELSE gFirst
  /\ gPc' = "grouped"
  /\ UNCHANGED <<gList, notGrp>>

\* the same rows arrive in another order: two neighbours change places
ReorderRows ==
  /\ gPc \in {"grouped", "stale"}
  /\ \E i \in 1..(Len(gList) - 1) :
       /\ gList[i] # gList[i + 1]
       /\ gList' = [gList EXCEPT ![i] = gList[i + 1], ![i + 1] = gList[i]]
  /\ gPc' = "stale"
  /\ UNCHANGED <<gOut, gFirst, notGrp>>

NextGroup == GroupTheRows \/ ReorderRows

SpecGroup == InitGroup /\ [][NextGroup]_vars

\* C21: grouping any reordering of the list gives the base names, the
\* variants of each base name and the total stock of each of its branches
\* that grouping the first order gave.
C21_GroupingOrderIndependent ==
  gPc = "grouped" => GroupSummary(gOut) = gFirst

C21_Witness ==
  /\ gPc = "grouped" /\ Len(gList) = MaxGroupRows /\ Len(gOut) = 1
  /\ Len(gOut[1].variants) = 2 /\ gOut[1].variants[1].item_code = "C2"
  /\ \E g \in gFirst : g.base_name = <<"GALAXY">> /\ Cardinality(g.variants) = 2
  /\ gList[1].item_name = <<"GALAXY", "Azul">> /\ gList[1].stock = 2
  /\ gList[2].branch_name = gList[1].branch_name /\ gList[2].stock = 1
  /\ gList[3] = gList[1]

RECURSIVE StockSum(_, _, _, _)
StockSum(rows, base, branch, i) ==
  IF i > Len(rows) THEN 0
  ELSE (IF BaseName(rows[i].item_name) = base /\ rows[i].branch_name = branch
        THEN rows[i].stock ELSE 0) + StockSum(rows, base, branch, i + 1)

\* C22: in every group a branch name occurs once, and its total_stock is the
\* sum of stock over the rows of the list with the group's base name and
\* that branch name.
C22_BranchOnceWithSummedStock ==
  gPc = "grouped" =>
    \A n \in 1..Len(gOut) :
      LET locs == gOut[n].locations
      IN  /\ \A i \in 1..Len(locs) : \A j \in 1..Len(locs) :
               locs[i].branch_name = locs[j].branch_name => i = j
          /\ \A i \in 1..Len(locs) :
               locs[i].total_stock = StockSum(gList, gOut[n].base_name, locs[i].branch_name, 1)

C22_Witness ==
  /\ gPc = "grouped" /\ Len(gOut) = 2
  /\ \E n \in 1..2 : \E i \in 1..Len(gOut[n].locations) :
       /\ gOut[n].locations[i].total_stock = 3
       /\ Len(gOut[n].variants) = 2
  /\ \E k \in 1..Len(gList) : gList[k].branch_name = ""

\* ------------------------------------------------------------------------
\* The reservation details and the city of one conversation C:
\* conversation_details, conversation_location.set_conversation_city and
\* the dispatcher branches that write them.
\* ------------------------------------------------------------------------
MaxArgs == 2                \* keys in the arguments of one tool call

KEY_FULL_NAME == "full_name"
KEY_CEDULA == "cedula"
KEY_PHONE == "telefono"
KEY_EMAIL == "correo"
KEY_DELIVERY_METHOD == "delivery_method"
KEY_BRANCH_NAME == "branch_name_seleccionado"
KEY_DELIVERY_ADDRESS == "delivery_address"
KEY_PAYMENT_METHOD == "payment_method"

\* the keys the modelled calls carry (cedula and correo are stored exactly
\* as full_name is, and stay missing here)
ArgKeys ==
  {KEY_FULL_NAME, KEY_PHONE, KEY_DELIVERY_METHOD,
   KEY_BRANCH_NAME, KEY_DELIVERY_ADDRESS, KEY_PAYMENT_METHOD, "city"}

ArgValues(k) ==
  CASE k = KEY_DELIVERY_METHOD -> {"retiro_en_tienda", "entrega_a_domicilio"}
    [] k = "city" -> {"Caracas", "Atlantis"}
    [] k = KEY_PHONE -> {"04141234567"}
    [] OTHER -> {"valor"}

\* the argument objects of a call: up to MaxArgs keys with their values
ArgObjects ==
  UNION {{f \in [D -> UNION {ArgValues(k) : k \in D}] : \A k \in D : f[k] \in ArgValues(k)} :
           D \in SetsUpTo(ArgKeys, MaxArgs)}

\* store_reservation_detail for every item of args (lines 44-59; the call
\* returns None, so the dispatcher's saved_keys stays empty)
StoreAll_nothing(res, args) == res
StoreAll(res, args) ==
  [k \in (DOMAIN res) \cup (DOMAIN args) |-> IF k \in DOMAIN args THEN args[k] ELSE res[k]]

HasKey(res, k) == k \in DOMAIN res
GetKey(res, k) == IF k \in DOMAIN res THEN res[k] ELSE NoneVal

\* get_missing_details, lines 81-116
required_details ==
  <<KEY_FULL_NAME, KEY_CEDULA, KEY_PHONE, KEY_EMAIL, KEY_DELIVERY_METHOD>>

get_missing_details(res) ==
  IF DOMAIN res = {} THEN required_details
  ELSE LET base == SelectSeq(required_details, LAMBDA k : ~HasKey(res, k))
           withBranch ==
             IF GetKey(res, KEY_DELIVERY_METHOD) = "retiro_en_tienda" /\ ~HasKey(res, KEY_BRANCH_NAME)
             THEN Append(base, KEY_BRANCH_NAME) ELSE base
           withAddress ==
             IF GetKey(res, KEY_DELIVERY_METHOD) = "entrega_a_domicilio"
                /\ ~HasKey(res, KEY_DELIVERY_ADDRESS)
             THEN Append(withBranch, KEY_DELIVERY_ADDRESS) ELSE withBranch
       IN  IF withAddress = <<>> /\ ~HasKey(res, KEY_PAYMENT_METHOD)
           THEN <<KEY_PAYMENT_METHOD>> ELSE withAddress

InitDetails ==
  /\ ChatIdle /\ DispIdle /\ HookIdle /\ DedupIdle /\ AsstIdle /\ ThrIdle /\ CtxIdle /\ NameIdle /\ BranchIdle /\ IdemIdle
  /\ SrchIdle /\ GrpIdle
  /\ reservation = <<>> /\ resCity = "" /\ dArgs = <<>> /\ dStatus = "" /\ dLast = ""
  /\ accScope = {}

\* line 288: saved_keys keeps the keys for which store_reservation_detail
\* returned a truthy value; the function has no return statement
StoreReturnValue == NoneVal
saved_keys(args) == {k \in DOMAIN args : Truthy(StoreReturnValue)}
SaveStatus(args) == IF saved_keys(args) # {} THEN "success" ELSE "no_action"

\* chat dispatcher, lines 287-290: save_customer_reservation_details
SaveReservationDetails ==
  /\ \E args \in ArgObjects :
       /\ dArgs' = args
       /\ reservation' = StoreAll(reservation, args)
       /\ resCity' = IF "city" \in DOMAIN args THEN ResolvedCity(args["city"]) ELSE resCity
  /\ dStatus' = SaveStatus(dArgs')
  /\ dLast' = "save_customer_reservation_details"
  /\ UNCHANGED <<accScope, notDet>>

\* chat dispatcher, lines 259-264: find_products with a city argument; the
\* city is stored before its warehouses are looked up
FindProductsSetsCity ==
  /\ \E city \in ArgValues("city") : resCity' = ResolvedCity(city)
  /\ dLast' = "find_products"
  /\ dStatus' = IF get_city_warehouses(resCity') = {} THEN "city_not_served"
                ELSE "success"
  /\ UNCHANGED <<reservation, dArgs, accScope, notDet>>

\* chat dispatcher, lines 279-282: query_accessories, scoped by the
\* warehouses of the stored city
QueryAccessories ==
  /\ accScope' = get_city_warehouses(resCity)
  /\ dLast' = "query_accessories"
  /\ dStatus' \in {"success", "not_found"}
  /\ UNCHANGED <<reservation, resCity, dArgs, notDet>>

NextDetails == SaveReservationDetails \/ FindProductsSetsCity \/ QueryAccessories

SpecDetails == InitDetails /\ [][NextDetails]_vars

\* ------------------------------------------------------------------------
\* Any sequence of store_reservation_detail calls on one conversation
\* (conversation_details.py lines 44-60), each followed by get_missing_details.
\* ------------------------------------------------------------------------
\* the enum of delivery_method in the schema of
\* save_customer_reservation_details
SchemaDeliveryMethods ==
  {"retiro_en_tienda", "envio_a_domicilio_caracas", "envio_nacional"}
SchemaHomeDelivery == SchemaDeliveryMethods \ {"retiro_en_tienda"}

DetailKeys ==
  {KEY_FULL_NAME, KEY_CEDULA, KEY_PHONE, KEY_EMAIL, KEY_DELIVERY_METHOD,
   KEY_BRANCH_NAME, KEY_DELIVERY_ADDRESS, KEY_PAYMENT_METHOD}

\* the values a call may carry: the schema does not bind the function, so
\* the value get_missing_details itself tests for is among them
DetailValues(k) ==
  IF k = KEY_DELIVERY_METHOD
  THEN SchemaDeliveryMethods \cup {"entrega_a_domicilio"}
  ELSE {"valor"}

StoreReservationDetail ==
  /\ \E k \in DetailKeys : \E v \in DetailValues(k) :
       /\ dArgs' = [x \in {k} |-> v]
       /\ reservation' = StoreAll(reservation, dArgs')
  /\ dLast' = "store_reservation_detail"
  /\ UNCHANGED <<resCity, dStatus, accScope, notDet>>

NextMissing == StoreReservationDetail

SpecMissing == InitDetails /\ [][NextMissing]_vars

\* what a complete reservation holds: the base details, the payment method
\* and the field of the chosen delivery method
RequiredFields(res, home) ==
  {KEY_FULL_NAME, KEY_CEDULA, KEY_PHONE, KEY_EMAIL, KEY_DELIVERY_METHOD,
   KEY_PAYMENT_METHOD}
  \cup (IF GetKey(res, KEY_DELIVERY_METHOD) = "retiro_en_tienda"
        THEN {KEY_BRANCH_NAME} ELSE {})
  \cup (IF GetKey(res, KEY_DELIVERY_METHOD) \in home
        THEN {KEY_DELIVERY_ADDRESS} ELSE {})

MissingAgrees(res, home) ==
  LET missing == get_missing_details(res) IN
  /\ \A k \in DOMAIN res : ~InSeq(k, missing)
  /\ InSeq(KEY_PAYMENT_METHOD, missing) =>
       (RequiredFields(res, home) \ {KEY_PAYMENT_METHOD}) \subseteq DOMAIN res
  /\ missing = <<>> => RequiredFields(res, home) \subseteq DOMAIN res

\* C37: for any sequence of store_reservation_detail calls,
\* get_missing_details never lists a stored key, lists payment_method only
\* when no other required field is missing, and returns the empty list only
\* when the base details, the payment method and the field of the chosen
\* delivery method (the branch for store pickup, the address for every
\* home-delivery value of the tool schema) are all stored.
C37_MissingDetails == MissingAgrees(reservation, SchemaHomeDelivery)

\* What does hold: the same with the one home-delivery value the function
\* tests for, which the schema does not offer.
C37_MissingDetailsOwnValue == MissingAgrees(reservation, {"entrega_a_domicilio"})

C37_CompleteWithoutAddress ==
  /\ dLast = "store_reservation_detail"
  /\ get_missing_details(reservation) = <<>>
  /\ GetKey(reservation, KEY_DELIVERY_METHOD) = "envio_nacional"
  /\ ~HasKey(reservation, KEY_DELIVERY_ADDRESS)

\* C23: after the dispatcher has executed save_customer_reservation_details
\* with arguments holding telefono and city "Caracas", telefono is not
\* among the missing details and the conversation's city is "caracas".
C23_SavedPhoneAndCity ==
  (/\ dLast = "save_customer_reservation_details"
   /\ KEY_PHONE \in DOMAIN dArgs /\ "city" \in DOMAIN dArgs /\ dArgs["city"] = "Caracas")
    => /\ ~InSeq(KEY_PHONE, get_missing_details(reservation))
       /\ resCity = "caracas"

C23_Witness ==
  /\ dLast = "save_customer_reservation_details"
  /\ DOMAIN dArgs = {KEY_PHONE, "city"} /\ dArgs["city"] = "Caracas"
  /\ resCity = "caracas" /\ dStatus = "no_action"
  /\ get_missing_details(reservation) = <<KEY_FULL_NAME, KEY_CEDULA, KEY_EMAIL, KEY_DELIVERY_METHOD>>

\* C39: a find_products call whose city resolves to no warehouses
\* (city_not_served), made when a served city is resolved, leaves the
\* conversation's resolved city unchanged, so that later tool calls scoped by
\* it (query_accessories) keep using the previously resolved city.
C39_UnservedCityKeepsCity ==
  [][(/\ get_city_warehouses(resCity) # {}
      /\ dLast' = "find_products" /\ dStatus' = "city_not_served")
       => resCity' = resCity]_vars

\* The consequence: after Caracas was resolved and an unserved city was asked
\* for, query_accessories runs without any warehouse scope.
C39_AccessoriesLoseScope ==
  /\ dLast = "query_accessories"
  /\ resCity = "atlantis" /\ accScope = {}

\* What does hold: query_accessories is scoped by the warehouses of the city
\* stored by the latest call that carried one.
C39_AccessoriesUseStoredCity ==
  dLast = "query_accessories" => accScope = get_city_warehouses(resCity)

\* C34: the result of save_customer_reservation_details has status success
\* whenever at least one provided key was stored in the reservation, and
\* status no_action only when nothing was stored.
StoredByCall == {k \in DOMAIN dArgs : k \in DOMAIN reservation /\ reservation[k] = dArgs[k]}

C34_StatusTellsWhatWasStored ==
  dLast = "save_customer_reservation_details" =>
    /\ StoredByCall # {} => dStatus = "success"
    /\ dStatus = "no_action" => StoredByCall = {}

\* a call without arguments stores nothing and is answered no_action
C34_NoArgumentsNoAction ==
  (dLast = "save_customer_reservation_details" /\ DOMAIN dArgs = {}) => dStatus = "no_action"

\* ------------------------------------------------------------------------
\* The product utilities: python_equivalent_of_canonicalize_whs and
\* generate_product_location_id.  A string is a sequence of characters.
\* ------------------------------------------------------------------------
MaxNameLen == 3                 \* characters of a freely chosen name
WHS_CANONICAL_MAX == 255        \* result[:255]
LOCATION_ID_MAX == 512          \* [:512]

NameAlphabet == {"a", "B", "7", " ", "-", "é", "_"}
NoneName == <<NoneVal>>         \* the argument None
Pad(n) == [i \in 1..n |-> "A"]  \* a long run of one letter

AsciiAlnum == {"a", "e", "A", "B", "C", "E", "I", "L", "M", "N", "O", "P", "T", "Y", "H", "S", "W", "7"}
Whitespace == {" "}

\* str.strip(chars): drop the leading and trailing characters of the set
StripChars(s, chars) ==
  IF \A i \in 1..Len(s) : s[i] \in chars THEN <<>>
  ELSE LET first == CHOOSE i \in 1..Len(s) : s[i] \notin chars /\ \A j \in 1..(i - 1) : s[j] \in chars
           last == CHOOSE i \in 1..Len(s) : s[i] \notin chars /\ \A j \in (i + 1)..Len(s) : s[j] \in chars
       IN  SubSeq(s, first, last)

\* lines 9-13
normalize_raw_input_to_str(value) ==
  IF value = NoneName THEN <<>> ELSE StripChars(value, Whitespace)

\* re.sub(r"[^...]+", "_", s): every maximal run of characters outside
\* keep becomes one "_"
ReSubRuns_each_char(s, keep) == [i \in 1..Len(s) |-> IF s[i] \in keep THEN s[i] ELSE "_"]
ReSubRuns(s, keep) ==
  LET marked == [i \in 1..Len(s) |->
                   IF s[i] \in keep THEN s[i]
                   ELSE IF i = 1 \/ s[i - 1] \in keep THEN "_" ELSE ""]
  IN  SelectSeq(marked, LAMBDA c : c # "")

\* unicodedata.normalize('NFKD', text) without the combining characters
Unaccent(s) == [i \in 1..Len(s) |-> IF s[i] = "é" THEN "e" ELSE s[i]]
\* str.upper
Upper(s) == [i \in 1..Len(s) |-> CASE s[i] = "a" -> "A" [] s[i] = "e" -> "E" [] OTHER -> s[i]]
\* s[:n]
Take(s, n) == SubSeq(s, 1, IF Len(s) < n THEN Len(s) ELSE n)

CANONICAL_EMPTY_WHS ==
  <<"C", "A", "N", "O", "N", "I", "C", "A", "L", "_", "E", "M", "P", "T", "Y", "_", "W", "H", "S">>

\* lines 37-116
python_equivalent_of_canonicalize_whs(name) ==
  LET text == normalize_raw_input_to_str(name)
      result == StripChars(Upper(ReSubRuns(Unaccent(text), AsciiAlnum)), {"_"})
  IN  IF text = <<>> THEN <<>>
      ELSE IF result = <<>> THEN CANONICAL_EMPTY_WHS
      ELSE Take(result, WHS_CANONICAL_MAX)

\* lines 16-35
generate_product_location_id(item_code_raw, whs_name_raw) ==
  LET item_code == normalize_raw_input_to_str(item_code_raw)
      whs_name == normalize_raw_input_to_str(whs_name_raw)
      sanitized_whs == ReSubRuns(whs_name, AsciiAlnum \cup {"-"})
  IN  IF item_code = <<>> \/ whs_name = <<>> THEN NoneName
      ELSE IF sanitized_whs = <<>> THEN NoneName
      ELSE Take(item_code \o <<"_">> \o sanitized_whs, LOCATION_ID_MAX)

WhsNames ==
  {NoneName} \cup SeqsUpTo(NameAlphabet, MaxNameLen)
    \cup {Pad(WHS_CANONICAL_MAX - 1) \o t : t \in SeqsUpTo(NameAlphabet, MaxNameLen - 1)}
ItemCodeInputs ==
  {NoneName, <<>>, <<" ">>, <<"B", "7">>, <<" ", "B", "7", " ">>, Pad(LOCATION_ID_MAX - 2)}

InitNames ==
  /\ ChatIdle /\ DispIdle /\ HookIdle /\ DedupIdle /\ AsstIdle /\ ThrIdle /\ CtxIdle /\ BranchIdle /\ IdemIdle
  /\ SrchIdle /\ GrpIdle /\ DetIdle
  /\ whsIn \in WhsNames /\ itemIn \in ItemCodeInputs
  /\ canon1 = <<>> /\ canon2 = <<>> /\ locId = <<>> /\ nPc = "input"

Canonicalize ==
  /\ nPc = "input"
  /\ canon1' = python_equivalent_of_canonicalize_whs(whsIn)
  /\ nPc' = "once"
  /\ UNCHANGED <<whsIn, itemIn, canon2, locId, notName>>

CanonicalizeAgain ==
  /\ nPc = "once"
  /\ canon2' = python_equivalent_of_canonicalize_whs(canon1)
  /\ nPc' = "twice"
  /\ UNCHANGED <<whsIn, itemIn, canon1, locId, notName>>

GenerateLocationId ==
  /\ nPc = "input"
  /\ locId' = generate_product_location_id(itemIn, whsIn)
  /\ nPc' = "id"
  /\ UNCHANGED <<whsIn, itemIn, canon1, canon2, notName>>

NextNames == Canonicalize \/ CanonicalizeAgain \/ GenerateLocationId

SpecNames == InitNames /\ [][NextNames]_vars

\* C24: canonicalizing a canonical name gives the same name, for every
\* warehouse name (empty, only non-alphanumeric, longer than 255 included).
C24_CanonicalizeIdempotent == nPc = "twice" => canon2 = canon1

\* the same, for the names whose canonical form was not cut at 255
C24_IdempotentWhenNotCut ==
  (nPc = "twice" /\ (Len(canon1) < WHS_CANONICAL_MAX \/ canon1[WHS_CANONICAL_MAX] # "_"))
    => canon2 = canon1

\* the replacement as the claim words it: each maximal run of characters
\* outside keep leaves one "_", placed where the run ends
RunsReplaced(s, keep) ==
  LET ends == [i \in 1..Len(s) |->
                 IF s[i] \in keep THEN s[i]
                 ELSE IF i = Len(s) \/ s[i + 1] \in keep THEN "_" ELSE ""]
  IN  SelectSeq(ends, LAMBDA c : c # "")

Blank(x) == x = NoneName \/ \A i \in 1..Len(x) : x[i] \in Whitespace

\* C25: generate_product_location_id is None for a None or blank input;
\* otherwise the first 512 characters of item_code + "_" + the warehouse
\* name with every maximal run of characters other than A-Z, a-z, 0-9 and
\* "-" replaced by one "_" (both inputs stripped); never longer than 512.
C25_LocationId ==
  nPc = "id" =>
    IF Blank(itemIn) \/ Blank(whsIn) THEN locId = NoneName
    ELSE /\ locId = Take(StripChars(itemIn, Whitespace) \o <<"_">>
                           \o RunsReplaced(StripChars(whsIn, Whitespace), AsciiAlnum \cup {"-"}),
                         LOCATION_ID_MAX)
         /\ Len(locId) <= LOCATION_ID_MAX

C25_Witness ==
  /\ nPc = "id" /\ itemIn = <<" ", "B", "7", " ">>
  /\ whsIn = <<"-", " ", "é">> /\ locId = <<"B", "7", "_", "-", "_">>

\* ------------------------------------------------------------------------
\* One get_branch_address tool call of the chat dispatcher:
\* product_service.get_branch_address and _format_results.
\* ------------------------------------------------------------------------
MaxBranchRows == 2

BranchRows ==
  [branch_name : {"CCCT", "SAMBIL"},
   store_address : {NoneVal, "Av. Principal de Chuao", "Av. Libertador"},
   warehouse_name : {"CCCT", "VALENCIA"}]

BranchNameArgs == {"", "CCCT", "ccct", "SAMBIL"}
BranchLower(b) == CASE b = "CCCT" -> "ccct" [] b = "SAMBIL" -> "sambil" [] OTHER -> b

\* Product.branch_name.ilike('%' + branch_name + '%')
ILike(value, pattern) == BranchLower(value) = BranchLower(pattern)

\* line 274: from ..utils.conversation_location import get_warehouses_for_city;
\* conversation_location defines no such name, so the import raises
ImportSucceeds == FALSE

BranchResult(status, name, address) ==
  [status |-> status, branch_name |-> name, branch_address |-> address]

\* the return value None
NoBranchResult == BranchResult(NoneVal, "", "")

\* get_branch_address, lines 255-289: the values it can return (query.first()
\* has no ORDER BY, so any matching row can be the first)
get_branch_address(rows, branch_name, city) ==
  IF branch_name = "" \/ city = "" THEN {NoBranchResult}
  ELSE LET canonical_city == detect_city_from_text(city)
           named == {r \in rows : ILike(r.branch_name, branch_name) /\ r.store_address # NoneVal}
           city_warehouses == warehouse_map(canonical_city)
           matching == IF canonical_city # "" /\ city_warehouses # {}
                       THEN {r \in named : r.warehouse_name \in city_warehouses}
                       ELSE named
       IN  IF canonical_city # "" /\ ~ImportSucceeds THEN {NoBranchResult}   \* except branch, line 287
           ELSE IF matching = {} THEN {BranchResult("not_found", "", "")}
           ELSE {BranchResult("success", r.branch_name, r.store_address) : r \in matching}

\* _format_results, lines 307-314
format_results(result) ==
  IF result = NoBranchResult THEN BranchResult("error", "", "") ELSE result

InitBranch ==
  /\ ChatIdle /\ DispIdle /\ HookIdle /\ DedupIdle /\ AsstIdle /\ ThrIdle /\ CtxIdle /\ IdemIdle
  /\ SrchIdle /\ GrpIdle /\ DetIdle /\ NameIdle
  /\ bRows \in SetsUpTo(BranchRows, MaxBranchRows)
  /\ bName \in BranchNameArgs /\ bCity \in CityArgs
  /\ bResult = NoBranchResult /\ bPc = "call"

\* chat dispatcher, lines 277-279
GetBranchAddress ==
  /\ bPc = "call"
  /\ \E result \in get_branch_address(bRows, bName, bCity) :
       bResult' = format_results(result)
  /\ bPc' = "done"
  /\ UNCHANGED <<bRows, bName, bCity, notBranch>>

NextBranch == GetBranchAddress

SpecBranch == InitBranch /\ [][NextBranch]_vars

\* C29: get_branch_address with branchName "CCCT" and city "Caracas", over a
\* catalog with a row of branch_name "CCCT" and a non-null store_address,
\* returns status success with the store_address of such a row.
C29_BranchAddressFound ==
  ( /\ bPc = "done" /\ bName = "CCCT" /\ bCity = "Caracas"
    /\ \E r \in bRows : r.branch_name = "CCCT" /\ r.store_address # NoneVal )
  => /\ bResult.status = "success"
     /\ \E r \in bRows : r.branch_name = "CCCT" /\ r.store_address = bResult.branch_address

\* the same lookup with a city that detect_city_from_text does not know
C29_FoundForUnknownCity ==
  ( /\ bPc = "done" /\ bName = "CCCT" /\ bCity = "Atlantis"
    /\ \E r \in bRows : r.branch_name = "CCCT" /\ r.store_address # NoneVal )
  => /\ bResult.status = "success"
     /\ \E r \in bRows : r.branch_name = "CCCT" /\ r.store_address = bResult.branch_address

\* ------------------------------------------------------------------------
\* handle_support_board_webhook, routes.py lines 70-127: the deduplication
\* block over deliveries of several conversations, handled one after another.
\* A delivery carries its conversation id, the upstream message_id (0 is a
\* payload without message_id) and the WhatsApp id the handler resolves (0 is
\* none); msg tells which message of the conversation was delivered. Upstream
\* ids identify the message: a message_id or a waid that is present is the
\* message's own.
\* ------------------------------------------------------------------------
MaxIdemDeliveries == 3
IdemConvs == {1, 2}
IdemMsgs == {1, 2}

IdemDeliveries ==
  { d \in [conv : IdemConvs, msg : IdemMsgs,
            message_id : {0} \cup IdemMsgs, waid : {0} \cup IdemMsgs] :
      d.message_id \in {0, d.msg} /\ d.waid \in {0, d.msg} }

\* str(triggering_message_id): the digits of the id, "None" for None
StrOfId(i) == IF i = 0 THEN <<"None", 0>> ELSE <<"digits", i>>

\* line 118: wa_message_id or str(triggering_message_id)
unique_msg_id(d) ==
  IF d.waid # 0 THEN <<"waid", d.waid>> ELSE StrOfId(d.message_id)

\* line 98 and line 119
dedupe_key(d) == <<"waid", d.conv, d.waid>>
cache_key(d) == <<"sb_webhook_processed", d.conv, unique_msg_id(d)>>

\* lines 96-126: Part 1 (SET NX EX 30), Part 2 (EXISTS, SETEX IDEMPOTENCY_TTL)
IdemOutcome(keys, d, now) ==
  IF d.waid # 0 /\ KeyLive(keys, dedupe_key(d), now) THEN "dup_waid"
  ELSE IF KeyLive(keys, cache_key(d), now) THEN "dup_generic"
  ELSE "new"

IdemKeys(keys, d, now) ==
  LET afterWaid == IF d.waid # 0
                   THEN SetNx(keys, dedupe_key(d), now + WaidTtl, now) ELSE keys
  IN  IF IdemOutcome(keys, d, now) = "new"
        THEN SetEx(afterWaid, cache_key(d), now + IDEMPOTENCY_TTL)
        ELSE afterWaid

InitIdem ==
  /\ ChatIdle /\ DispIdle /\ HookIdle /\ DedupIdle /\ AsstIdle /\ ThrIdle /\ CtxIdle
  /\ SrchIdle /\ GrpIdle /\ DetIdle /\ NameIdle /\ BranchIdle
  /\ iNow = 0 /\ iKeys = {} /\ iLog = <<>>

\* one delivery, from the parsing of the body to the end of the
\* deduplication block
HandleDelivery ==
  /\ Len(iLog) < MaxIdemDeliveries
  /\ \E d \in IdemDeliveries :
       /\ iKeys' = IdemKeys(iKeys, d, iNow)
       /\ iLog' = Append(iLog, [d |-> d, at |-> iNow,
                                outcome |-> IdemOutcome(iKeys, d, iNow)])
  /\ UNCHANGED <<iNow, notIdem>>

\* the clock moves on to the next moment at which a key runs out
IdemTick ==
  /\ \E r \in iKeys :
       /\ \A u \in iKeys : r.exp <= u.exp
       /\ iNow' = r.exp
       /\ iKeys' = {u \in iKeys : u.exp > r.exp}
  /\ UNCHANGED <<iLog, notIdem>>

NextIdem == HandleDelivery \/ IdemTick

SpecIdem == InitIdem /\ [][NextIdem]_vars

SameUpstreamId(a, b) ==
  \/ a.waid # 0 /\ a.waid = b.waid
  \/ a.message_id # 0 /\ a.message_id = b.message_id

EarlierWithinTtl(i, j) ==
  j < i /\ iLog[j].d.conv = iLog[i].d.conv
        /\ iLog[i].at - iLog[j].at < IDEMPOTENCY_TTL

Dropped(i) == iLog[i].outcome \in {"dup_waid", "dup_generic"}

\* C36: a delivery is dropped as duplicate only if an earlier delivery within
\* the TTL had the same conversation id and was of the same message (the same
\* WhatsApp id or upstream message id); of two different messages of one
\* conversation that both lack a WhatsApp id and a message id, neither is
\* dropped as a duplicate of the other.
C36_DroppedOnlyForSameId ==
  \A i \in 1..Len(iLog) :
    Dropped(i) =>
      \E j \in 1..Len(iLog) :
        /\ EarlierWithinTtl(i, j)
        /\ \/ SameUpstreamId(iLog[j].d, iLog[i].d)
           \/ iLog[j].d.msg = iLog[i].d.msg

\* What does hold: a delivery that carries a WhatsApp id or a message id is
\* dropped only after an earlier delivery of its conversation, within the TTL,
\* with that same id; and a dropped delivery is always preceded, within the
\* TTL, by one of its conversation with the same unique_msg_id.
C36_DroppedWithIdOnlyForSameId ==
  \A i \in 1..Len(iLog) :
    Dropped(i) =>
      /\ \E j \in 1..Len(iLog) :
           EarlierWithinTtl(i, j) /\ unique_msg_id(iLog[j].d) = unique_msg_id(iLog[i].d)
      /\ (iLog[i].d.waid # 0 \/ iLog[i].d.message_id # 0) =>
           \E j \in 1..Len(iLog) :
             EarlierWithinTtl(i, j) /\ SameUpstreamId(iLog[j].d, iLog[i].d)

C36_IdlessDropped ==
  \E i, j \in 1..Len(iLog) :
    /\ j < i /\ Dropped(i)
    /\ iLog[i].d.conv = iLog[j].d.conv /\ iLog[i].d.msg # iLog[j].d.msg
    /\ iLog[i].d.waid = 0 /\ iLog[i].d.message_id = 0
    /\ iLog[j].d.waid = 0 /\ iLog[j].d.message_id = 0

====
